---- MODULE Spec2Model ----
(***************************************************************************)
(* A state-machine model of the mqtt-ir-module backend: the learning       *)
(* session singleton, the hub's MQTT command client, the hub and agent     *)
(* pairing managers and the agent registry.  Each subsystem has its own    *)
(* specification over the shared variables; a step of one subsystem leaves *)
(* the variables of the others unchanged.  Operations that release their   *)
(* lock between reading and writing are modelled as one action per locked  *)
(* section, so that the interleavings the threads can produce are states   *)
(* of the model.                                                           *)
(***************************************************************************)
EXTENDS Integers, Sequences, FiniteSets, TLC

(* Optional values: None is the empty sequence, Some(x) the singleton. *)
None == <<>>
Some(x) == <<x>>

Max(a, b) == IF a >= b THEN a ELSE b

VARIABLES
    (* IrLearningService *)
    session,        \* self._session: None or Some(LearningSession)
    startPc,        \* position of each caller inside start()
    startLocal,     \* the LearningSession a caller has built but not yet stored
    startResult,    \* what the caller's last start() did: "none", "ok", "already_running"
    startedCount    \* start() calls that returned success since the last stop()

learnVars == <<session, startPc, startLocal, startResult, startedCount>>

VARIABLES
    (* AgentCommandClientHub *)
    pending,          \* self._pending: request_id -> None or Some(waiter state)
    event,            \* the threading.Event of each _request call: set or not
    reqPc,            \* position of each _request call: "idle", "waiting", "done"
    reqLocal,         \* locals of each _request call: agent id, timeout, time spent in event.wait
    outcome,          \* what each _request call returned or raised
    rpcRunning,       \* self._running
    subscribed_topic, \* self._subscribed_topic: the response topic filter, <<>> when empty
    released          \* calls still in event.wait whose waiter a stop() took out

rpcVars == <<pending, event, reqPc, reqLocal, outcome, rpcRunning, subscribed_topic, released>>

VARIABLES
    (* PairingManagerHub and the agents table *)
    hub_running,      \* self._running (and the two subscription flags set with it)
    sw_version,       \* self._sw_version, fixed at construction
    hub_session_id,   \* self._session_id, "" when None
    hub_nonce,        \* self._nonce, "" when None
    hub_expires_at,   \* self._expires_at
    close_timer,      \* self._close_timer: None or Some(timer)
    agents,           \* database.agents: agent_id -> None or Some(row)
    clock,            \* time.time(), in seconds
    next_session,     \* how many uuid session ids open_pairing has drawn, plus one
    hubPc,            \* position of the API thread, the timer thread and the MQTT callback thread
    hubLocal,         \* the locals of each of the three threads
    retained_open,    \* the retained message on ir/pairing/open: None or Some(payload)
    accept_published, \* the last message accept_offer published: None or Some(message)
    hubResult         \* what the last API call returned or raised

windowVars == <<sw_version, hub_session_id, hub_nonce, hub_expires_at, close_timer, clock,
                next_session, hubPc, hubLocal, retained_open, accept_published, hubResult>>
hubVars == <<hub_running, agents, windowVars>>

VARIABLES
    (* unpair_and_delete_agent, the AgentRegistry and the remotes' assignments *)
    live_agents,          \* AgentRegistry._agents: the ids of the registered agents
    assigned,             \* remotes.assigned_agent_id of each remote, "" when null
    pending_unpair_acks,  \* self._pending_unpair_acks: command_id -> None or Some(state)
    unpair_published,     \* the retained unpair command last published: None or Some(message)
    next_command,         \* how many uuid command ids have been drawn, plus one
    delPc,                \* position of the DELETE /agents/{id} request thread
    delLocal,             \* its locals
    delResult,            \* what the last delete_agent call returned or raised
    sendPc,               \* position of the POST /send request thread
    sendLocal,            \* its locals
    sendResult,           \* what the last resolve_agent_for_remote returned or raised
    deleted               \* agents whose deletion has completed

unpairVars == <<live_agents, assigned, pending_unpair_acks, unpair_published, next_command,
                delPc, delLocal, delResult, sendPc, sendLocal, sendResult, deleted>>

VARIABLES
    (* PairingManagerAgent and its AgentRuntimeStateStore *)
    pairing_hub_id,     \* the binding store's _pairing_hub_id, "" when unbound
    agent_running,      \* self._running
    listening,          \* self._subscribed_open and self._subscribed_accept
    subscribed_unpair,  \* self._subscribed_unpair
    active_session_id,  \* self._active_session_id
    active_nonce,       \* self._active_nonce
    active_expires_at,  \* self._active_expires_at
    agent_now,          \* time.time() on the agent, in seconds
    agent_version,   \* self._sw_version, fixed at construction
    offer_published,    \* the last offer the agent published: None or Some(message)
    ack_published,      \* the last unpair ack the agent published: None or Some(message)
    bound_pairs,        \* the (session, nonce) pairs that have bound the agent
    rebound_pairs       \* the pairs that have bound it more than once

agentVars == <<pairing_hub_id, agent_running, listening, subscribed_unpair, active_session_id,
               active_nonce, active_expires_at, agent_now, agent_version, offer_published,
               ack_published, bound_pairs, rebound_pairs>>

(* The agent's command handler *)
VARIABLES
    cmd_running,          \* AgentCommandHandler._running
    cmd_subscribed_topic, \* AgentCommandHandler._subscribed_topic, <<>> when not subscribed
    cmd_request,          \* the command message delivered last: None or Some(message)
    cmd_executed,         \* the operations _on_command ran for it
    cmd_published         \* the responses _on_command published for it

cmdVars == <<cmd_running, cmd_subscribed_topic, cmd_request, cmd_executed, cmd_published>>

(* POST /send and the local agent *)
VARIABLES
    irPc,             \* where the send_ir call is: "idle", "agent" (in LocalAgent.send) or "engine"
    irResult,         \* what the last send_ir call returned or raised
    learning_active,  \* LocalAgent._learning_active
    engine_send       \* the last call of the transport's send, with what was active when it ran

irVars == <<irPc, irResult, learning_active, engine_send>>

(* The button_signals table *)
VARIABLES
    buttons,         \* the ids in the buttons table
    button_signals,  \* button_id -> None or Some(row of button_signals)
    pressed,         \* the buttons with a successful upsert_press and no deletion since
    sigResult        \* what the last call on the tables returned or raised

sigVars == <<buttons, button_signals, pressed, sigResult>>

VARIABLES
    (* IrSignalParser: one capture going through parse_and_normalize *)
    raw_capture,    \* the raw text handed to parse_and_normalize
    parse_result,   \* None or Some(what parse_and_normalize(raw_capture) returned or raised)
    reparse_result \* None or Some(what parse_and_normalize(encode_pulses(pulses)) did)

parserVars == <<raw_capture, parse_result, reparse_result>>

VARIABLES
    (* IrSignalAggregator: one call of aggregate *)
    frames,           \* the list of frames, one per take
    round_to_us,      \* the rounding step
    min_match_ratio,  \* the ratio, as <<numerator, denominator>>
    aggregate_result  \* None or Some(what aggregate returned or raised)

aggVars == <<frames, round_to_us, min_match_ratio, aggregate_result>>

VARIABLES
    (* IrSenderService: the signals row of one button and the last send *)
    stored_signals,  \* None or Some(the row of the button in the signals table)
    send_result      \* None or Some(what the last send() returned or raised)

senderVars == <<stored_signals, send_result>>

VARIABLES
    (* IrLearningService.capture with the catalog of one remote *)
    cur_session,      \* self._session: the session object, 0 when None
    session_objects,  \* the LearningSession objects start() has built
    session_count,    \* how many of them there are
    start_pc,         \* position of the thread inside start()
    start_extend,     \* its extend argument
    start_result,     \* what the last start() returned ("ok") or raised, "" while it runs
    button_rows,      \* buttons of the remote: name -> id, 0 when there is no row
    button_count,     \* the last id the buttons table has handed out
    signal_rows,      \* button_signals: button id -> None or Some(row)
    capPc,            \* position of each request thread inside capture()
    capLocal,         \* its locals
    capResult         \* what its last capture() returned or raised

capVars == <<cur_session, session_objects, session_count, start_pc, start_extend, start_result,
             button_rows, button_count, signal_rows, capPc, capLocal, capResult>>

VARIABLES
    (* AgentLogHub *)
    log_events,      \* self._events: agent_id -> the deque of events, oldest first
    log_appended,    \* agent_id -> how many events were appended for it
    snapshot_result  \* None or Some(the call and what snapshot returned)

logVars == <<log_events, log_appended, snapshot_result>>

VARIABLES
    (* IrLearningService._log and StatusCommunication *)
    status_active,      \* self._session is the session whose log is written
    session_log_count,  \* len(session.logs)
    logPc,              \* per request thread, where it is in _log
    logLocal,           \* per request thread, the entry it appended and the payload it built
    status_tasks,       \* the _broadcast_async coroutines scheduled so far, in order
    loop_ready,         \* the event loop's queue of tasks that can run
    ws_queue,           \* per websocket, the sends issued and not yet completed
    ws_received         \* per websocket, the payloads its client has received

statusVars == <<status_active, session_log_count, logPc, logLocal, status_tasks, loop_ready,
                ws_queue, ws_received>>

VARIABLES
    (* PairingManagerAgent._on_unpair_command, step by step *)
    unpair_pc,        \* where the handler is: "idle", "resume", "ack" or "clear_retained"
    unpair_local,     \* its command_id and the value of self._running it read
    retained_unpair,  \* the retained message on ir/pairing/unpair/{uid}: None or Some(payload)
    agent_sent        \* what the handler has done for the command, in order

stepVars == <<unpair_pc, unpair_local, retained_unpair, agent_sent>>

VARIABLES
    (* AgentRuntimeStateStore with its own publications delivered back *)
    store_running,    \* self._running (the subscription of start() is in place)
    store_hub_id,     \* self._pairing_hub_id
    store_debug,      \* self._debug
    storePc,          \* per mutator thread: "idle", "build", "send" or "notify"
    storeLocal,       \* per mutator thread: the mutator, the snapshot it built, debug_changed
    retained_state,   \* the retained message on ir/agents/{id}/state: None or Some(payload)
    state_inbox,      \* the messages the broker has yet to deliver to _on_state, oldest first
    store_calls,      \* how many calls of start and of the mutators were made
    binding_cleared,  \* clear_binding has returned and no set_binding was called since
    debug_level       \* the flag the debug change handler was last given

storeVars == <<store_running, store_hub_id, store_debug, storePc, storeLocal, retained_state,
               state_inbox, store_calls, binding_cleared, debug_level>>

VARIABLES
    (* IrLearningService: the tuning values and the calls that write and read them *)
    aggregate_round_to_us,      \* self._aggregate_round_to_us
    aggregate_min_match_ratio,  \* self._aggregate_min_match_ratio, as <<numerator, denominator>>
    hold_idle_timeout_ms,       \* self._hold_idle_timeout_ms
    applyPc,                    \* where apply_learning_settings is, "idle" when the lock is free
    applyLocal,                 \* its settings argument
    apply_count,                \* how many calls of apply_learning_settings were made
    tuningPc,                   \* per capture thread, where it is in reading the arguments of aggregate
    aggregate_args,             \* per capture thread, the arguments read so far
    applied_pairs               \* the pairs (round_to_us, min_match_ratio) in force after each update

tuningVars == <<aggregate_round_to_us, aggregate_min_match_ratio, hold_idle_timeout_ms, applyPc,
                applyLocal, apply_count, tuningPc, aggregate_args, applied_pairs>>

VARIABLES
    (* AgentRegistry.register_agent and unregister_agent on request threads *)
    regPc,       \* per thread: "idle", "upsert" (in register_agent) or "set_status" (in unregister_agent)
    regLocal,    \* per thread: the agent id of its call
    reg_calls    \* how many calls were made

regVars == <<regPc, regLocal, reg_calls>>

VARIABLES
    (* IrCtlEngine.receive_one_message *)
    rx_pc,          \* where the call is: "idle", "run", "read" or "remove"
    rx_path,        \* the scratch file of the call, numbered by creation (0: none yet)
    rx_cmd,         \* the command line of the receiver process
    scratch_files,  \* the scratch files that exist
    scratch_text,   \* what the receiver process wrote to the scratch file of the call
    rx_proc,        \* the completed process: return code, stdout and stderr, stripped
    rx_raw,         \* the text read from the scratch file
    rx_result,      \* how the last call ended: what it raised, or what it returned
    rx_calls        \* how many calls were made

rxVars == <<rx_pc, rx_path, rx_cmd, scratch_files, scratch_text, rx_proc, rx_raw, rx_result,
            rx_calls>>

vars == <<learnVars, rpcVars, hubVars, unpairVars, agentVars, cmdVars, irVars, sigVars, parserVars, aggVars, senderVars, capVars, logVars, statusVars, stepVars, storeVars, tuningVars, regVars, rxVars>>
notLearnVars == <<rpcVars, hubVars, unpairVars, agentVars, cmdVars, irVars, sigVars, parserVars, aggVars, senderVars, capVars, logVars, statusVars, stepVars, storeVars, tuningVars, regVars, rxVars>>
notRpcVars == <<learnVars, hubVars, unpairVars, agentVars, cmdVars, irVars, sigVars, parserVars, aggVars, senderVars, capVars, logVars, statusVars, stepVars, storeVars, tuningVars, regVars, rxVars>>
notHubVars == <<learnVars, rpcVars, unpairVars, agentVars, cmdVars, irVars, sigVars, parserVars, aggVars, senderVars, capVars, logVars, statusVars, stepVars, storeVars, tuningVars, regVars, rxVars>>
notUnpairVars == <<learnVars, rpcVars, windowVars, agentVars, cmdVars, irVars, sigVars, parserVars, aggVars, senderVars, capVars, logVars, statusVars, stepVars, storeVars, tuningVars, regVars, rxVars>>
notAgentVars == <<learnVars, rpcVars, hubVars, unpairVars, cmdVars, irVars, sigVars, parserVars, aggVars, senderVars, capVars, logVars, statusVars, stepVars, storeVars, tuningVars, regVars, rxVars>>
notCmdVars == <<learnVars, rpcVars, hubVars, unpairVars, agentVars, irVars, sigVars, parserVars, aggVars, senderVars, capVars, logVars, statusVars, stepVars, storeVars, tuningVars, regVars, rxVars>>
notIrVars == <<learnVars, rpcVars, hubVars, unpairVars, agentVars, cmdVars, sigVars, parserVars, aggVars, senderVars, capVars, logVars, statusVars, stepVars, storeVars, tuningVars, regVars, rxVars>>
notSigVars == <<learnVars, rpcVars, hubVars, unpairVars, agentVars, cmdVars, irVars, parserVars, aggVars, senderVars, capVars, logVars, statusVars, stepVars, storeVars, tuningVars, regVars, rxVars>>
notParserVars == <<learnVars, rpcVars, hubVars, unpairVars, agentVars, cmdVars, irVars, sigVars, aggVars, senderVars, capVars, logVars, statusVars, stepVars, storeVars, tuningVars, regVars, rxVars>>
notAggVars == <<learnVars, rpcVars, hubVars, unpairVars, agentVars, cmdVars, irVars, sigVars, parserVars, senderVars, capVars, logVars, statusVars, stepVars, storeVars, tuningVars, regVars, rxVars>>
notSenderVars == <<learnVars, rpcVars, hubVars, unpairVars, agentVars, cmdVars, irVars, sigVars, parserVars, aggVars, capVars, logVars, statusVars, stepVars, storeVars, tuningVars, regVars, rxVars>>
notCapVars == <<learnVars, rpcVars, hubVars, unpairVars, agentVars, cmdVars, irVars, sigVars, parserVars, aggVars, senderVars, logVars, statusVars, stepVars, storeVars, tuningVars, regVars, rxVars>>
notLogVars == <<learnVars, rpcVars, hubVars, unpairVars, agentVars, cmdVars, irVars, sigVars, parserVars, aggVars, senderVars, capVars, statusVars, stepVars, storeVars, tuningVars, regVars, rxVars>>
notStatusVars == <<learnVars, rpcVars, hubVars, unpairVars, agentVars, cmdVars, irVars, sigVars, parserVars, aggVars, senderVars, capVars, logVars, stepVars, storeVars, tuningVars, regVars, rxVars>>
notStepVars == <<learnVars, rpcVars, hubVars, unpairVars, agentVars, cmdVars, irVars, sigVars, parserVars, aggVars, senderVars, capVars, logVars, statusVars, storeVars, tuningVars, regVars, rxVars>>
notStoreVars == <<learnVars, rpcVars, hubVars, unpairVars, agentVars, cmdVars, irVars, sigVars, parserVars, aggVars, senderVars, capVars, logVars, statusVars, stepVars, tuningVars, regVars, rxVars>>
notTuningVars == <<learnVars, rpcVars, hubVars, unpairVars, agentVars, cmdVars, irVars, sigVars, parserVars, aggVars, senderVars, capVars, logVars, statusVars, stepVars, storeVars, regVars, rxVars>>
notRegVars == <<learnVars, rpcVars, hubVars, unpairVars, agentVars, cmdVars, irVars, sigVars, parserVars, aggVars, senderVars, capVars, logVars, statusVars, stepVars, storeVars, tuningVars, rxVars>>
notRxVars == <<learnVars, rpcVars, hubVars, unpairVars, agentVars, cmdVars, irVars, sigVars, parserVars, aggVars, senderVars, capVars, logVars, statusVars, stepVars, storeVars, tuningVars, regVars>>
notUnpairRegVars == <<learnVars, rpcVars, windowVars, agentVars, cmdVars, irVars, sigVars, parserVars, aggVars, senderVars, capVars, logVars, statusVars, stepVars, storeVars, tuningVars, rxVars>>
notPairedHubVars == <<learnVars, rpcVars, agentVars, cmdVars, irVars, sigVars, parserVars, aggVars, senderVars, capVars, logVars, statusVars, stepVars, storeVars, tuningVars, regVars, rxVars>>
notAgentStepVars == <<learnVars, rpcVars, hubVars, unpairVars, cmdVars, irVars, sigVars, parserVars, aggVars, senderVars, capVars, logVars, statusVars, storeVars, tuningVars, regVars, rxVars>>

-----------------------------------------------------------------------------
(* Bounds *)
MaxCallers == 2
MaxRemotes == 2

MaxRequests == 2
TickMs == 250

MaxSessions == 2
TickSeconds == 10
MaxClock == 20

MaxCommands == 2
UnpairTickSeconds == 4

MaxButtons == 2

MaxTokens == 3

MaxFrames == 3

MaxHoldMs == 12

MaxButtonRows == 2

MaxStarts == 2

MaxTakes == 2

MaxHoldFrames == 4

MaxLogEvents == 102

MaxLogEntries == 3
MaxStoreCalls == 3
MaxApplies == 2
MaxRegistryCalls == 3
MaxReceiveCalls == 3

Callers == 1..MaxCallers
RemoteIds == 1..MaxRemotes
RequestIds == {ToString(i) : i \in 1..MaxRequests}
AgentIds == {"a1", "a2"}
HubIds == {"hub1", "hub2"}

-----------------------------------------------------------------------------
(* IrLearningService: start() and stop()                                   *)

LearningSession(remote_id, extend, caller) ==
    [remote_id |-> remote_id, extend |-> extend, owner |-> caller]

LearnInit ==
    /\ session = None
    /\ startPc = [c \in Callers |-> "idle"]
    /\ startLocal = [c \in Callers |-> None]
    /\ startResult = [c \in Callers |-> "none"]
    /\ startedCount = 0

(* start(), first locked section: the guard on self._session. *)
StartCheck(c, remote_id, extend) ==
    /\ startPc[c] = "idle"
    /\ IF session # None
       THEN /\ startResult' = [startResult EXCEPT ![c] = "already_running"]
            /\ UNCHANGED <<startPc, startLocal>>
       ELSE /\ startPc' = [startPc EXCEPT ![c] = "build"]
            /\ startLocal' = [startLocal EXCEPT ![c] = Some(LearningSession(remote_id, extend, c))]
            /\ startResult' = [startResult EXCEPT ![c] = "none"]
    /\ UNCHANGED <<session, startedCount, notLearnVars>>

(* start(), second locked section: the session is stored and start returns. *)
StartInstall(c) ==
    /\ startPc[c] = "build"
    /\ session' = startLocal[c]
    /\ startPc' = [startPc EXCEPT ![c] = "idle"]
    /\ startLocal' = [startLocal EXCEPT ![c] = None]
    /\ startResult' = [startResult EXCEPT ![c] = "ok"]
    /\ startedCount' = startedCount + 1
    /\ UNCHANGED notLearnVars

(* stop(): one locked section that takes the session out. *)
LearnStop ==
    /\ session' = None
    /\ startedCount' = 0
    /\ UNCHANGED <<startPc, startLocal, startResult, notLearnVars>>

LearnNext ==
    \/ \E c \in Callers, remote_id \in RemoteIds, extend \in BOOLEAN : StartCheck(c, remote_id, extend)
    \/ \E c \in Callers : StartInstall(c)
    \/ LearnStop


-----------------------------------------------------------------------------
(* AgentCommandClientHub: _request, _on_response, start and stop            *)

(* The hub id the client reads from the runtime status. *)
OwnHubId == "hub1"

NoOutcome == [kind |-> "none", code |-> "", status_code |-> 0, result |-> None]
NoLocal == [agent_id |-> "", timeout |-> 0, waited |-> 0]

RoutingError(code, status_code) ==
    [kind |-> "error", code |-> code, status_code |-> status_code, result |-> None]

(* The waiter state _request registers under its request id. *)
Waiter(agent_id) ==
    [agent_id |-> agent_id, completed |-> FALSE, ok |-> FALSE, result |-> None, error |-> None]

(* uuid4 request ids are fresh: the ids are handed out in a fixed order. *)
IssuedBefore(q, r) == \E i, j \in 1..MaxRequests : i < j /\ q = ToString(i) /\ r = ToString(j)

PendingIds == {r \in RequestIds : pending[r] # None}

FloorMs == 500
WaitTimeoutNoFloor(timeout_ms) == timeout_ms

(* timeout = max(0.5, float(timeout_seconds)), in milliseconds. *)
WaitTimeout(timeout_ms) == Max(FloorMs, timeout_ms)

(* Topics are sequences of levels. *)
ResponseTopic(hub_id, agent_id, request_id) ==
    <<"ir", "hubs", hub_id, "agents", agent_id, "resp", request_id>>

ResponseFilter(hub_id) == <<"ir", "hubs", hub_id, "agents", "+", "resp", "+">>

(* The broker's match of a topic against a subscription filter. *)
TopicMatches(filter, topic) ==
    /\ Len(filter) = Len(topic)
    /\ \A i \in 1..Len(filter) : filter[i] = "+" \/ filter[i] = topic[i]

ParseResponseTopic(topic) ==
    IF Len(topic) # 7 THEN <<"", "">>
    ELSE IF topic[1] # "ir" \/ topic[2] # "hubs" \/ topic[4] # "agents" \/ topic[6] # "resp"
         THEN <<"", "">>
         ELSE <<topic[5], topic[7]>>

RpcInit ==
    /\ pending = [r \in RequestIds |-> None]
    /\ event = [r \in RequestIds |-> FALSE]
    /\ reqPc = [r \in RequestIds |-> "idle"]
    /\ reqLocal = [r \in RequestIds |-> NoLocal]
    /\ outcome = [r \in RequestIds |-> NoOutcome]
    /\ rpcRunning = FALSE
    /\ subscribed_topic = <<>>
    /\ released = {}

RpcStart ==
    /\ ~rpcRunning
    /\ rpcRunning' = TRUE
    /\ subscribed_topic' = ResponseFilter(OwnHubId)
    /\ UNCHANGED <<pending, event, reqPc, reqLocal, outcome, released, notRpcVars>>

(* stop() that empties the map and leaves the events alone. *)
RpcStopNoRelease ==
    /\ rpcRunning' = FALSE
    /\ subscribed_topic' = <<>>
    /\ pending' = [r \in RequestIds |-> None]
    /\ released' = released \cup {r \in PendingIds : reqPc[r] = "waiting"}
    /\ UNCHANGED <<event, reqPc, reqLocal, outcome, notRpcVars>>

(* stop(): the pending map is emptied under the lock and the events of the   *)
(* waiters taken out are set right after it.                                 *)
RpcStop ==
    /\ rpcRunning' = FALSE
    /\ subscribed_topic' = <<>>
    /\ pending' = [r \in RequestIds |-> None]
    /\ event' = [r \in RequestIds |-> event[r] \/ r \in PendingIds]
    /\ released' = released \cup {r \in PendingIds : reqPc[r] = "waiting"}
    /\ UNCHANGED <<reqPc, reqLocal, outcome, notRpcVars>>

(* _request up to event.wait: a fresh request id, its waiter, and a publish *)
(* that returns.                                                           *)
RequestRegister(r, agent_id, timeout_ms) ==
    /\ reqPc[r] = "idle"
    /\ \A q \in RequestIds : IssuedBefore(q, r) => reqPc[q] # "idle"
    /\ pending' = [pending EXCEPT ![r] = Some(Waiter(agent_id))]
    /\ reqLocal' = [reqLocal EXCEPT ![r] = [agent_id |-> agent_id, timeout |-> WaitTimeout(timeout_ms), waited |-> 0]]
    /\ reqPc' = [reqPc EXCEPT ![r] = "waiting"]
    /\ UNCHANGED <<event, outcome, rpcRunning, subscribed_topic, released, notRpcVars>>

(* _request when connection.publish raises: the waiter just registered is    *)
(* removed again and the call ends with mqtt_publish_failed.                 *)
RequestPublishFailed(r) ==
    /\ reqPc[r] = "idle"
    /\ \A q \in RequestIds : IssuedBefore(q, r) => reqPc[q] # "idle"
    /\ pending' = [pending EXCEPT ![r] = None]
    /\ reqPc' = [reqPc EXCEPT ![r] = "done"]
    /\ outcome' = [outcome EXCEPT ![r] = RoutingError("mqtt_publish_failed", 503)]
    /\ UNCHANGED <<event, reqLocal, rpcRunning, subscribed_topic, released, notRpcVars>>

(* Time passes for the calls blocked in event.wait. *)
RpcTick ==
    /\ \E r \in RequestIds : reqPc[r] = "waiting" /\ reqLocal[r].waited < reqLocal[r].timeout
    /\ reqLocal' = [r \in RequestIds |->
                      IF reqPc[r] = "waiting" /\ reqLocal[r].waited < reqLocal[r].timeout
                      THEN [reqLocal[r] EXCEPT !.waited = @ + TickMs]
                      ELSE reqLocal[r]]
    /\ UNCHANGED <<pending, event, reqPc, outcome, rpcRunning, subscribed_topic, released, notRpcVars>>

(* What _request returns or raises from the state it popped. *)
RequestOutcome(state) ==
    IF state = None \/ ~state[1].completed
    THEN RoutingError("agent_timeout", 504)
    ELSE IF state[1].ok
         THEN [kind |-> "ok", code |-> "", status_code |-> 200, result |-> state[1].result]
         ELSE IF state[1].error = None
              THEN RoutingError("agent_error", 400)
              ELSE RoutingError(IF state[1].error[1].code = "" THEN "agent_error" ELSE state[1].error[1].code,
                                IF state[1].error[1].status_code = 0 THEN 400 ELSE state[1].error[1].status_code)

(* _request that reads its waiter after the wait and leaves it in the map. *)
RequestFinishNoPop(r) ==
    /\ reqPc[r] = "waiting"
    /\ event[r] \/ reqLocal[r].waited >= reqLocal[r].timeout
    /\ outcome' = [outcome EXCEPT ![r] = RequestOutcome(pending[r])]
    /\ reqPc' = [reqPc EXCEPT ![r] = "done"]
    /\ reqLocal' = [reqLocal EXCEPT ![r] = NoLocal]
    /\ event' = [event EXCEPT ![r] = FALSE]
    /\ released' = released \ {r}
    /\ UNCHANGED <<pending, rpcRunning, subscribed_topic, notRpcVars>>

(* event.wait(timeout) returns, because the event is set or the timeout has  *)
(* passed; the waiter is popped under the lock and the call ends.            *)
RequestFinish(r) ==
    /\ reqPc[r] = "waiting"
    /\ event[r] \/ reqLocal[r].waited >= reqLocal[r].timeout
    /\ pending' = [pending EXCEPT ![r] = None]
    /\ outcome' = [outcome EXCEPT ![r] = RequestOutcome(pending[r])]
    /\ reqPc' = [reqPc EXCEPT ![r] = "done"]
    /\ reqLocal' = [reqLocal EXCEPT ![r] = NoLocal]
    /\ event' = [event EXCEPT ![r] = FALSE]
    /\ released' = released \ {r}
    /\ UNCHANGED <<rpcRunning, subscribed_topic, notRpcVars>>

(* The response payloads an agent, or anybody else on the broker, can send: *)
(* request_id "" is an absent request_id; the result is the opaque value the *)
(* sender put on that topic; an error that is no dict is None.               *)
ErrorValues == {None, Some([code |-> "busy", status_code |-> 409])}

ResponsePayloads(topic) ==
    {None}
    \cup {Some([request_id |-> q, ok |-> TRUE, result |-> Some(topic), error |-> None]) :
            q \in {""} \cup RequestIds}
    \cup {Some([request_id |-> q, ok |-> FALSE, result |-> None, error |-> e]) :
            q \in {""} \cup RequestIds, e \in ErrorValues}

ResponseTopics ==
    {ResponseTopic(OwnHubId, a, r) : a \in AgentIds, r \in RequestIds}
    \cup {ResponseTopic(h, "a1", "1") : h \in HubIds}
    \cup {<<"ir", "hubs", OwnHubId, "agents", "a1", "resp">>}

(* The waiter after _on_response accepted the payload. *)
CompletedWaiter(state, payload) ==
    IF payload.ok
    THEN [state EXCEPT !.completed = TRUE, !.ok = TRUE, !.result = payload.result, !.error = None]
    ELSE [state EXCEPT !.completed = TRUE, !.ok = FALSE,
                       !.error = IF payload.error # None THEN payload.error
                                 ELSE Some([code |-> "agent_error", status_code |-> 400])]

(* _on_response without the comparison of the topic's agent id. *)
ResponseAcceptedAnyAgent(topic, payload) ==
    LET request_id == ParseResponseTopic(topic)[2] IN
    /\ ParseResponseTopic(topic)[1] # "" /\ request_id # ""
    /\ payload # None
    /\ pending[request_id] # None

(* Whether _on_response gets past each of its early returns. *)
ResponseAccepted(topic, payload) ==
    LET parsed == ParseResponseTopic(topic) IN
    /\ parsed[1] # "" /\ parsed[2] # ""
    /\ payload # None
    /\ pending[parsed[2]] # None
    /\ pending[parsed[2]][1].agent_id # "" /\ pending[parsed[2]][1].agent_id = parsed[1]
    /\ ~(payload[1].request_id # "" /\ payload[1].request_id # parsed[2])

(* _on_response for a message the broker delivers on the subscription. *)
OnResponse(topic, payload) ==
    /\ subscribed_topic # <<>>
    /\ TopicMatches(subscribed_topic, topic)
    /\ IF ResponseAccepted(topic, payload)
       THEN LET request_id == ParseResponseTopic(topic)[2] IN
            /\ pending' = [pending EXCEPT ![request_id] = Some(CompletedWaiter(pending[request_id][1], payload[1]))]
            /\ event' = [event EXCEPT ![request_id] = TRUE]
       ELSE UNCHANGED <<pending, event>>
    /\ UNCHANGED <<reqPc, reqLocal, outcome, rpcRunning, subscribed_topic, released, notRpcVars>>

TimeoutInputsMs == {100, 500}

RpcNext ==
    \/ RpcStart
    \/ RpcStop
    \/ \E r \in RequestIds, a \in AgentIds, t \in TimeoutInputsMs : RequestRegister(r, a, t)
    \/ \E r \in RequestIds : RequestPublishFailed(r)
    \/ RpcTick
    \/ \E r \in RequestIds : RequestFinish(r)
    \/ \E topic \in ResponseTopics : \E payload \in ResponsePayloads(topic) : OnResponse(topic, payload)

-----------------------------------------------------------------------------
(* PairingManagerHub: start, open_pairing, close_pairing, the close timer, *)
(* _on_offer and accept_offer, over the agents table.  The API thread, the *)
(* timer thread and the MQTT callback thread each take one step per locked *)
(* section or database call.                                               *)

MinWindowSeconds == 10
MaxWindowSeconds == 3600
DurationInputs == {5, 4000}

HubThreads == {"api", "timer", "mqtt"}

SessionId(i) == "s" \o ToString(i)
HubNonce(i) == "n" \o ToString(i)
SessionIds == {SessionId(i) : i \in 1..MaxSessions}
Nonces == {HubNonce(i) : i \in 1..MaxSessions}

(* A version is the sequence of its parts and dots: 1.4 is <<"1", ".", "4">>. *)
HubVersions == {<<>>, <<"1", ".", "4">>}
AgentVersions == {<<>>, <<"1", ".", "0">>, <<"2", ".", "0">>}

FirstDot(value) ==
    IF \E i \in 1..Len(value) : value[i] = "."
    THEN CHOOSE i \in 1..Len(value) : value[i] = "." /\ \A j \in 1..(i - 1) : value[j] # "."
    ELSE Len(value) + 1

MajorVersion(value) ==
    IF value = <<>> THEN <<>> ELSE SubSeq(value, 1, FirstDot(value) - 1)

IsCompatible(agent_sw_version) ==
    LET hub_major == MajorVersion(sw_version)
        agent_major == MajorVersion(agent_sw_version)
    IN  IF hub_major = <<>> \/ agent_major = <<>> THEN TRUE ELSE hub_major = agent_major

ClampDuration(duration_seconds) ==
    IF duration_seconds < MinWindowSeconds THEN MinWindowSeconds
    ELSE IF duration_seconds > MaxWindowSeconds THEN MaxWindowSeconds
    ELSE duration_seconds

AgentRow(pending_flag, pairing_session_id) ==
    [pending |-> pending_flag, pairing_session_id |-> pairing_session_id,
     transport |-> "mqtt", status |-> "online"]

(* Agents.delete_pending: every pending row, or those of one session. *)
DeletePending(table, pairing_session_id) ==
    [a \in AgentIds |->
        IF /\ table[a] # None
           /\ table[a][1].pending
           /\ (pairing_session_id = "" \/ table[a][1].pairing_session_id = pairing_session_id)
        THEN None ELSE table[a]]

(* Agents.set_pending_state on an existing row: pending=false forces the session to null. *)
SetPendingState(row, pending_flag, pairing_session_id) ==
    [row EXCEPT !.pending = pending_flag,
                !.pairing_session_id = IF pending_flag THEN pairing_session_id ELSE ""]

NoHubLocal == [session_id |-> "", nonce |-> "", expires_at |-> 0, duration |-> 0, agent_id |-> ""]
NoHubResult == [op |-> "", agent_id |-> "", code |-> ""]
HubResult(op, agent_id, code) == [op |-> op, agent_id |-> agent_id, code |-> code]

OfferFilter == <<"ir", "pairing", "offer", "+", "+">>
OfferTopic(session_id, agent_uid) == <<"ir", "pairing", "offer", session_id, agent_uid>>
AcceptTopic(session_id, agent_uid) == <<"ir", "pairing", "accept", session_id, agent_uid>>

ParseOfferTopic(topic) ==
    IF Len(topic) # 5 THEN <<"", "">>
    ELSE IF topic[1] # "ir" \/ topic[2] # "pairing" \/ topic[3] # "offer" THEN <<"", "">>
    ELSE <<topic[4], topic[5]>>

(* A database that holds no agents and no assignments yet. *)
FreshDatabase ==
    /\ agents = [a \in AgentIds |-> None]
    /\ assigned = [r \in RemoteIds |-> ""]

HubInit ==
    /\ hub_running = FALSE
    /\ sw_version \in HubVersions
    /\ hub_session_id = ""
    /\ hub_nonce = ""
    /\ hub_expires_at = 0
    /\ close_timer = None
    /\ clock = 0
    /\ next_session = 1
    /\ hubPc = [t \in HubThreads |-> "idle"]
    /\ hubLocal = [t \in HubThreads |-> NoHubLocal]
    /\ retained_open = None
    /\ accept_published = None
    /\ hubResult = NoHubResult

HubStart ==
    /\ ~hub_running
    /\ hub_running' = TRUE
    /\ agents' = DeletePending(agents, "")
    /\ UNCHANGED <<sw_version, hub_session_id, hub_nonce, hub_expires_at, close_timer,
                   clock, next_session, hubPc, hubLocal, retained_open, accept_published,
                   hubResult, notHubVars>>

HubTick ==
    /\ clock + TickSeconds <= MaxClock
    /\ clock' = clock + TickSeconds
    /\ UNCHANGED <<hub_running, sw_version, hub_session_id, hub_nonce, hub_expires_at,
                   close_timer, agents, next_session, hubPc, hubLocal, retained_open,
                   accept_published, hubResult, notHubVars>>

(* open_pairing, lines 89-123: clamp the duration, draw the ids, publish the retained open. *)
OpenPublish(duration_seconds) ==
    /\ hubPc["api"] = "idle"
    /\ next_session <= MaxSessions
    /\ LET duration == ClampDuration(duration_seconds) IN
        /\ hubLocal' = [hubLocal EXCEPT !["api"] =
                [session_id |-> SessionId(next_session), nonce |-> HubNonce(next_session),
                 expires_at |-> clock + duration, duration |-> duration, agent_id |-> ""]]
        /\ retained_open' = Some([session_id |-> SessionId(next_session),
                                  nonce |-> HubNonce(next_session),
                                  expires_at |-> clock + duration,
                                  sw_version |-> sw_version])
    /\ next_session' = next_session + 1
    /\ hubPc' = [hubPc EXCEPT !["api"] = "open_install"]
    /\ accept_published' = None
    /\ hubResult' = NoHubResult
    /\ UNCHANGED <<hub_running, sw_version, hub_session_id, hub_nonce, hub_expires_at,
                   close_timer, agents, clock, notHubVars>>

(* open_pairing, lines 125-134: record the session and replace the timer, under the lock. *)
OpenInstall ==
    /\ hubPc["api"] = "open_install"
    /\ hub_session_id' = hubLocal["api"].session_id
    /\ hub_nonce' = hubLocal["api"].nonce
    /\ hub_expires_at' = hubLocal["api"].expires_at
    /\ close_timer' = Some([session_id |-> hubLocal["api"].session_id,
                            due |-> clock + hubLocal["api"].duration, fired |-> FALSE])
    /\ hubPc' = [hubPc EXCEPT !["api"] = "open_purge"]
    /\ UNCHANGED <<hub_running, sw_version, agents, clock, next_session, hubLocal,
                   retained_open, accept_published, hubResult, notHubVars>>

(* open_pairing, lines 136-137: delete every pending agent and return the status. *)
OpenPurge ==
    /\ hubPc["api"] = "open_purge"
    /\ agents' = DeletePending(agents, "")
    /\ hubPc' = [hubPc EXCEPT !["api"] = "idle"]
    /\ hubLocal' = [hubLocal EXCEPT !["api"] = NoHubLocal]
    /\ UNCHANGED <<hub_running, sw_version, hub_session_id, hub_nonce, hub_expires_at,
                   close_timer, clock, next_session, retained_open, accept_published,
                   hubResult, notHubVars>>

(* close_pairing, lines 142-150, run by thread t: clear the session and cancel the timer. *)
CloseClear(t) ==
    /\ hubLocal' = [hubLocal EXCEPT ![t] = [NoHubLocal EXCEPT !.session_id = hub_session_id]]
    /\ hub_session_id' = ""
    /\ hub_nonce' = ""
    /\ hub_expires_at' = 0
    /\ close_timer' = None
    /\ hubPc' = [hubPc EXCEPT ![t] = "close_purge"]
    /\ accept_published' = IF t = "api" THEN None ELSE accept_published
    /\ hubResult' = IF t = "api" THEN NoHubResult ELSE hubResult
    /\ UNCHANGED <<hub_running, sw_version, agents, clock, next_session, retained_open,
                   notHubVars>>

(* close_pairing, lines 152-161: purge the session's pending agents, clear the retained open. *)
ClosePurge(t) ==
    /\ hubPc[t] = "close_purge"
    /\ agents' = IF hubLocal[t].session_id # ""
                 THEN DeletePending(agents, hubLocal[t].session_id) ELSE agents
    /\ retained_open' = None
    /\ hubPc' = [hubPc EXCEPT ![t] = "idle"]
    /\ hubLocal' = [hubLocal EXCEPT ![t] = NoHubLocal]
    /\ UNCHANGED <<hub_running, sw_version, hub_session_id, hub_nonce, hub_expires_at,
                   close_timer, clock, next_session, accept_published, hubResult,
                   notHubVars>>

ApiClose == hubPc["api"] = "idle" /\ CloseClear("api")

(* threading.Timer: the function runs once the interval has passed, unless cancelled. *)
TimerFire ==
    /\ hubPc["timer"] = "idle"
    /\ close_timer # None
    /\ ~close_timer[1].fired
    /\ clock >= close_timer[1].due
    /\ close_timer' = Some([close_timer[1] EXCEPT !.fired = TRUE])
    /\ hubLocal' = [hubLocal EXCEPT !["timer"] = [NoHubLocal EXCEPT !.session_id = close_timer[1].session_id]]
    /\ hubPc' = [hubPc EXCEPT !["timer"] = "check"]
    /\ UNCHANGED <<hub_running, sw_version, hub_session_id, hub_nonce, hub_expires_at,
                   agents, clock, next_session, retained_open, accept_published,
                   hubResult, notHubVars>>

(* _auto_close_pairing, lines 254-257: compare the active session with the timer's. *)
TimerCheck ==
    /\ hubPc["timer"] = "check"
    /\ IF hub_session_id # hubLocal["timer"].session_id
       THEN /\ hubPc' = [hubPc EXCEPT !["timer"] = "idle"]
            /\ hubLocal' = [hubLocal EXCEPT !["timer"] = NoHubLocal]
       ELSE /\ hubPc' = [hubPc EXCEPT !["timer"] = "close"]
            /\ UNCHANGED hubLocal
    /\ UNCHANGED <<hub_running, sw_version, hub_session_id, hub_nonce, hub_expires_at,
                   close_timer, agents, clock, next_session, retained_open,
                   accept_published, hubResult, notHubVars>>

TimerClose == hubPc["timer"] = "close" /\ CloseClear("timer")

(* The offers the broker can deliver: any session, nonce, optional fields and version. *)
OfferTopics ==
    {OfferTopic(s, "a1") : s \in SessionIds} \cup {<<"ir", "pairing", "offer", SessionId(1)>>}

OfferPayloads ==
    {None} \cup
    {Some([nonce |-> n, session_id |-> s, agent_uid |-> u, sw_version |-> v]) :
        n \in Nonces, s \in {"", SessionId(1)}, u \in {""} \cup AgentIds, v \in AgentVersions}

(* _on_offer, lines 261-296, without the nonce comparison of lines 280-282. *)
OfferAcceptedNoNonce(topic, payload) ==
    LET parsed == ParseOfferTopic(topic) IN
    /\ parsed[1] # "" /\ parsed[2] # ""
    /\ hub_session_id # "" /\ hub_nonce # "" /\ clock < hub_expires_at
    /\ parsed[1] = hub_session_id
    /\ payload # None
    /\ ~(payload[1].session_id # "" /\ payload[1].session_id # hub_session_id)
    /\ (IF payload[1].agent_uid # "" THEN payload[1].agent_uid ELSE parsed[2]) = parsed[2]
    /\ IsCompatible(payload[1].sw_version)

(* _on_offer, lines 261-296: every early return, in the code's order. *)
OfferAccepted(topic, payload) ==
    LET parsed == ParseOfferTopic(topic) IN
    /\ parsed[1] # "" /\ parsed[2] # ""
    /\ hub_session_id # "" /\ hub_nonce # "" /\ clock < hub_expires_at
    /\ parsed[1] = hub_session_id
    /\ payload # None
    /\ payload[1].nonce = hub_nonce
    /\ ~(payload[1].session_id # "" /\ payload[1].session_id # hub_session_id)
    /\ (IF payload[1].agent_uid # "" THEN payload[1].agent_uid ELSE parsed[2]) = parsed[2]
    /\ IsCompatible(payload[1].sw_version)

(* _on_offer, lines 261-296: read the window under the lock and validate the offer. *)
OfferRead(topic, payload) ==
    /\ hub_running
    /\ hubPc["mqtt"] = "idle"
    /\ TopicMatches(OfferFilter, topic)
    /\ IF OfferAccepted(topic, payload)
       THEN /\ hubPc' = [hubPc EXCEPT !["mqtt"] = "upsert"]
            /\ hubLocal' = [hubLocal EXCEPT !["mqtt"] =
                    [NoHubLocal EXCEPT !.session_id = hub_session_id,
                                       !.agent_id = ParseOfferTopic(topic)[2]]]
       ELSE UNCHANGED <<hubPc, hubLocal>>
    /\ UNCHANGED <<hub_running, sw_version, hub_session_id, hub_nonce, hub_expires_at,
                   close_timer, agents, clock, next_session, retained_open,
                   accept_published, hubResult, notHubVars>>

(* _on_offer, lines 298-311: upsert the agent as pending for the session that was read. *)
OfferUpsert ==
    /\ hubPc["mqtt"] = "upsert"
    /\ agents' = [agents EXCEPT ![hubLocal["mqtt"].agent_id] =
                    Some(AgentRow(TRUE, hubLocal["mqtt"].session_id))]
    /\ hubPc' = [hubPc EXCEPT !["mqtt"] = "idle"]
    /\ hubLocal' = [hubLocal EXCEPT !["mqtt"] = NoHubLocal]
    /\ UNCHANGED <<hub_running, sw_version, hub_session_id, hub_nonce, hub_expires_at,
                   close_timer, clock, next_session, retained_open, accept_published,
                   hubResult, notHubVars>>

(* accept_offer, lines 172-179: read the window under the lock, fail when it is closed. *)
AcceptBegin(agent_id) ==
    /\ hubPc["api"] = "idle"
    /\ IF hub_session_id = "" \/ hub_nonce = "" \/ clock >= hub_expires_at
       THEN /\ hubResult' = HubResult("accept", agent_id, "pairing_closed")
            /\ UNCHANGED <<hubPc, hubLocal>>
       ELSE /\ hubPc' = [hubPc EXCEPT !["api"] = "accept_lookup"]
            /\ hubLocal' = [hubLocal EXCEPT !["api"] =
                    [NoHubLocal EXCEPT !.session_id = hub_session_id, !.nonce = hub_nonce,
                                       !.expires_at = hub_expires_at, !.agent_id = agent_id]]
            /\ hubResult' = NoHubResult
    /\ accept_published' = None
    /\ UNCHANGED <<hub_running, sw_version, hub_session_id, hub_nonce, hub_expires_at,
                   close_timer, agents, clock, next_session, retained_open, notHubVars>>

AcceptFail(code) ==
    /\ hubResult' = HubResult("accept", hubLocal["api"].agent_id, code)
    /\ hubPc' = [hubPc EXCEPT !["api"] = "idle"]
    /\ hubLocal' = [hubLocal EXCEPT !["api"] = NoHubLocal]

AcceptMessage(session_id, nonce, agent_id) ==
    [topic |-> AcceptTopic(session_id, agent_id),
     payload |-> [session_id |-> session_id, nonce |-> nonce, agent_uid |-> agent_id]]

(* accept_offer, lines 181-205, without the session comparison of lines 184-186. *)
AcceptLookupNoSessionCheck ==
    /\ hubPc["api"] = "accept_lookup"
    /\ LET local == hubLocal["api"]
           agent == agents[local.agent_id]
       IN  IF agent = None \/ ~agent[1].pending
           THEN AcceptFail("unknown_pending_agent") /\ UNCHANGED accept_published
           ELSE /\ accept_published' = Some(AcceptMessage(local.session_id, local.nonce, local.agent_id))
                /\ hubPc' = [hubPc EXCEPT !["api"] = "accept_commit"]
                /\ UNCHANGED <<hubLocal, hubResult>>
    /\ UNCHANGED <<hub_running, sw_version, hub_session_id, hub_nonce, hub_expires_at,
                   close_timer, agents, clock, next_session, retained_open, notHubVars>>

(* accept_offer, lines 181-205: look the agent up, compare sessions, publish the accept. *)
AcceptLookup ==
    /\ hubPc["api"] = "accept_lookup"
    /\ LET local == hubLocal["api"]
           agent == agents[local.agent_id]
       IN  IF agent = None \/ ~agent[1].pending
           THEN AcceptFail("unknown_pending_agent") /\ UNCHANGED accept_published
           ELSE IF agent[1].pairing_session_id # local.session_id
           THEN AcceptFail("offer_session_mismatch") /\ UNCHANGED accept_published
           ELSE /\ accept_published' = Some(AcceptMessage(local.session_id, local.nonce, local.agent_id))
                /\ hubPc' = [hubPc EXCEPT !["api"] = "accept_commit"]
                /\ UNCHANGED <<hubLocal, hubResult>>
    /\ UNCHANGED <<hub_running, sw_version, hub_session_id, hub_nonce, hub_expires_at,
                   close_timer, agents, clock, next_session, retained_open, notHubVars>>

(* accept_offer, lines 206-211: set_pending_state(pending=False, pairing_session_id=None). *)
AcceptCommit ==
    /\ hubPc["api"] = "accept_commit"
    /\ LET agent_id == hubLocal["api"].agent_id IN
        IF agents[agent_id] = None
        THEN AcceptFail("unknown_agent") /\ UNCHANGED agents
        ELSE /\ agents' = [agents EXCEPT ![agent_id] = Some(SetPendingState(agents[agent_id][1], FALSE, ""))]
             /\ hubResult' = HubResult("accept", agent_id, "ok")
             /\ hubPc' = [hubPc EXCEPT !["api"] = "idle"]
             /\ hubLocal' = [hubLocal EXCEPT !["api"] = NoHubLocal]
    /\ UNCHANGED <<hub_running, sw_version, hub_session_id, hub_nonce, hub_expires_at,
                   close_timer, clock, next_session, retained_open, accept_published,
                   notHubVars>>

HubNext ==
    \/ HubStart
    \/ HubTick
    \/ \E duration_seconds \in DurationInputs : OpenPublish(duration_seconds)
    \/ OpenInstall
    \/ OpenPurge
    \/ ApiClose
    \/ \E t \in {"api", "timer"} : ClosePurge(t)
    \/ TimerFire
    \/ TimerCheck
    \/ TimerClose
    \/ \E topic \in OfferTopics : \E payload \in OfferPayloads : OfferRead(topic, payload)
    \/ OfferUpsert
    \/ \E agent_id \in AgentIds : AcceptBegin(agent_id)
    \/ AcceptLookup
    \/ AcceptCommit

-----------------------------------------------------------------------------
(* unpair_and_delete_agent with _send_unpair_command and _on_unpair_ack,   *)
(* delete_agent, and AgentRegistry.resolve_agent_for_remote run by a send  *)
(* request.  Remotes.set_assigned_agent and Remotes.clear_assigned_agent   *)
(* are called by this code; they write and clear remotes.assigned_agent_id *)
(* as the specification of the remotes table describes them.               *)

UnpairAckTimeoutSeconds == 8

CommandId(i) == "c" \o ToString(i)
CommandIds == {CommandId(i) : i \in 1..MaxCommands}

UnpairTopic(agent_id) == <<"ir", "pairing", "unpair", agent_id>>
UnpairAckTopic(agent_id) == <<"ir", "pairing", "unpair_ack", agent_id>>
UnpairAckFilter == <<"ir", "pairing", "unpair_ack", "+">>

ParseUnpairAckTopic(topic) ==
    IF Len(topic) # 4 THEN ""
    ELSE IF topic[1] # "ir" \/ topic[2] # "pairing" \/ topic[3] # "unpair_ack" THEN ""
    ELSE topic[4]

NoDelLocal == [agent_id |-> "", command_id |-> "", was_pending |-> FALSE, waited |-> 0]
NoDelResult == [agent_id |-> "", code |-> "", unpair_acked |-> FALSE, was_pending |-> FALSE]
DelResult(local, code, unpair_acked) ==
    [agent_id |-> local.agent_id, code |-> code, unpair_acked |-> unpair_acked,
     was_pending |-> local.was_pending]
NoSendLocal == [remote_id |-> 0, assigned_agent_id |-> "", selected_id |-> ""]
NoSendResult == [remote_id |-> 0, code |-> "", agent_id |-> ""]

(* Remotes.set_assigned_agent(remote_id, assigned_agent_id) *)
SetAssignedAgent(table, remote_id, agent_id) == [table EXCEPT ![remote_id] = agent_id]

(* Remotes.clear_assigned_agent(agent_id): null the column wherever it names the agent. *)
ClearAssignedAgent(table, agent_id) ==
    [r \in RemoteIds |-> IF table[r] = agent_id THEN "" ELSE table[r]]

RegistryInit ==
    /\ live_agents = {}
    /\ pending_unpair_acks = [c \in CommandIds |-> None]
    /\ unpair_published = None
    /\ next_command = 1
    /\ delPc = "idle"
    /\ delLocal = NoDelLocal
    /\ delResult = NoDelResult
    /\ sendPc = "idle"
    /\ sendLocal = NoSendLocal
    /\ sendResult = NoSendResult
    /\ deleted = {}

(* The database file of an earlier run: a1 is paired, a2 is paired or was  *)
(* left pending, and a remote is unassigned or assigned to a1.             *)
PersistedDatabase ==
    /\ agents \in {[a \in AgentIds |-> IF a = "a1" THEN Some(AgentRow(FALSE, "")) ELSE row] :
                        row \in {Some(AgentRow(FALSE, "")), Some(AgentRow(TRUE, "s0"))}}
    /\ assigned \in [RemoteIds -> {"", "a1"}]

(* lifespan: register_external_mqtt_agents_from_db(), then pairing_manager.start(). *)
LifespanStartup ==
    /\ ~hub_running
    /\ live_agents' = live_agents \cup
            {a \in AgentIds : agents[a] # None /\ agents[a][1].transport = "mqtt" /\ ~agents[a][1].pending}
    /\ hub_running' = TRUE
    /\ agents' = DeletePending(agents, "")
    /\ UNCHANGED <<assigned, pending_unpair_acks, unpair_published, next_command, delPc,
                   delLocal, delResult, sendPc, sendLocal, sendResult, deleted,
                   notUnpairVars>>

(* unpair_and_delete_agent, lines 218-229 and 318-342: look the agent up; for an   *)
(* accepted agent register the ack state and publish the retained unpair command.  *)
DeleteBegin(agent_id) ==
    /\ delPc = "idle"
    /\ IF agents[agent_id] = None
       THEN /\ delResult' = [NoDelResult EXCEPT !.agent_id = agent_id, !.code = "unknown_agent"]
            /\ UNCHANGED <<delPc, delLocal, pending_unpair_acks, unpair_published, next_command>>
       ELSE IF agents[agent_id][1].transport # "mqtt"
       THEN /\ delResult' = [NoDelResult EXCEPT !.agent_id = agent_id, !.code = "only_mqtt"]
            /\ UNCHANGED <<delPc, delLocal, pending_unpair_acks, unpair_published, next_command>>
       ELSE IF agents[agent_id][1].pending
       THEN /\ delPc' = "clear"
            /\ delLocal' = [NoDelLocal EXCEPT !.agent_id = agent_id, !.was_pending = TRUE]
            /\ delResult' = NoDelResult
            /\ UNCHANGED <<pending_unpair_acks, unpair_published, next_command>>
       ELSE /\ next_command <= MaxCommands
            /\ delPc' = "wait"
            /\ delLocal' = [NoDelLocal EXCEPT !.agent_id = agent_id, !.command_id = CommandId(next_command)]
            /\ delResult' = NoDelResult
            /\ pending_unpair_acks' = [pending_unpair_acks EXCEPT ![CommandId(next_command)] =
                                            Some([agent_id |-> agent_id, acked |-> FALSE])]
            /\ unpair_published' = Some([topic |-> UnpairTopic(agent_id),
                                         command_id |-> CommandId(next_command)])
            /\ next_command' = next_command + 1
    /\ UNCHANGED <<live_agents, assigned, sendPc, sendLocal, sendResult, deleted,
                   hub_running, agents, notUnpairVars>>

(* event.wait(max(0.1, timeout_seconds)), line 343: time passes while the call waits. *)
UnpairTick ==
    /\ delPc = "wait"
    /\ delLocal.waited < UnpairAckTimeoutSeconds
    /\ delLocal' = [delLocal EXCEPT !.waited = @ + UnpairTickSeconds]
    /\ UNCHANGED <<live_agents, assigned, pending_unpair_acks, unpair_published,
                   next_command, delPc, delResult, sendPc, sendLocal, sendResult,
                   deleted, hub_running, agents, notUnpairVars>>

(* _send_unpair_command, lines 343-350, and lines 228-229: the wait ends, the *)
(* call reads acked, drops the ack state and fails when there was no ack.     *)
UnpairWaitEnd ==
    /\ delPc = "wait"
    /\ LET state == pending_unpair_acks[delLocal.command_id]
           acked == state # None /\ state[1].acked
       IN  /\ acked \/ delLocal.waited >= UnpairAckTimeoutSeconds
           /\ pending_unpair_acks' = [pending_unpair_acks EXCEPT ![delLocal.command_id] = None]
           /\ IF acked
              THEN /\ delPc' = "clear"
                   /\ delLocal' = [delLocal EXCEPT !.waited = 0]
                   /\ UNCHANGED delResult
              ELSE /\ delPc' = "idle"
                   /\ delLocal' = NoDelLocal
                   /\ delResult' = DelResult(delLocal, "unpair_ack_timeout", FALSE)
    /\ UNCHANGED <<live_agents, assigned, unpair_published, next_command, sendPc,
                   sendLocal, sendResult, deleted, hub_running, agents, notUnpairVars>>

(* unpair_and_delete_agent, line 231: remotes.clear_assigned_agent(agent_id). *)
DeleteClear ==
    /\ delPc = "clear"
    /\ assigned' = ClearAssignedAgent(assigned, delLocal.agent_id)
    /\ delPc' = "delete"
    /\ UNCHANGED <<live_agents, pending_unpair_acks, unpair_published, next_command,
                   delLocal, delResult, sendPc, sendLocal, sendResult, deleted,
                   hub_running, agents, notUnpairVars>>

(* unpair_and_delete_agent, lines 232-239: agents.delete(agent_id). *)
DeleteRow ==
    /\ delPc = "delete"
    /\ IF agents[delLocal.agent_id] = None
       THEN /\ delResult' = DelResult(delLocal, "unknown_agent", ~delLocal.was_pending)
            /\ delPc' = "idle"
            /\ delLocal' = NoDelLocal
            /\ UNCHANGED agents
       ELSE /\ agents' = [agents EXCEPT ![delLocal.agent_id] = None]
            /\ delPc' = "unregister"
            /\ UNCHANGED <<delResult, delLocal>>
    /\ UNCHANGED <<live_agents, assigned, pending_unpair_acks, unpair_published,
                   next_command, sendPc, sendLocal, sendResult, deleted, hub_running,
                   notUnpairVars>>

(* delete_agent, lines 376-378: agent_registry.unregister_agent(agent_id) and return. *)
Unregister ==
    /\ delPc = "unregister"
    /\ live_agents' = live_agents \ {delLocal.agent_id}
    /\ agents' = [agents EXCEPT ![delLocal.agent_id] =
                    IF @ = None THEN None ELSE Some([@[1] EXCEPT !.status = "offline"])]
    /\ deleted' = deleted \cup {delLocal.agent_id}
    /\ delResult' = DelResult(delLocal, "ok", ~delLocal.was_pending)
    /\ delPc' = "idle"
    /\ delLocal' = NoDelLocal
    /\ UNCHANGED <<assigned, pending_unpair_acks, unpair_published, next_command, sendPc,
                   sendLocal, sendResult, hub_running, notUnpairVars>>

AckTopics == {UnpairAckTopic(a) : a \in AgentIds} \cup {<<"ir", "pairing", "unpair_ack">>}
AckPayloads == {None} \cup {Some([command_id |-> c]) : c \in {""} \cup CommandIds}

(* _on_unpair_ack, lines 353-370, without the comparison of lines 368-370. *)
AckAcceptedAnyAgent(topic, payload) ==
    /\ ParseUnpairAckTopic(topic) # ""
    /\ payload # None
    /\ payload[1].command_id # ""
    /\ pending_unpair_acks[payload[1].command_id] # None

(* _on_unpair_ack, lines 353-370: every early return, in the code's order. *)
AckAccepted(topic, payload) ==
    /\ ParseUnpairAckTopic(topic) # ""
    /\ payload # None
    /\ payload[1].command_id # ""
    /\ pending_unpair_acks[payload[1].command_id] # None
    /\ pending_unpair_acks[payload[1].command_id][1].agent_id = ParseUnpairAckTopic(topic)

(* _on_unpair_ack, lines 352-374 *)
OnUnpairAck(topic, payload) ==
    /\ hub_running
    /\ TopicMatches(UnpairAckFilter, topic)
    /\ IF AckAccepted(topic, payload)
       THEN pending_unpair_acks' = [pending_unpair_acks EXCEPT ![payload[1].command_id] =
                                        Some([@[1] EXCEPT !.acked = TRUE])]
       ELSE UNCHANGED pending_unpair_acks
    /\ UNCHANGED <<live_agents, assigned, unpair_published, next_command, delPc,
                   delLocal, delResult, sendPc, sendLocal, sendResult, deleted,
                   hub_running, agents, notUnpairVars>>

(* send_ir, line 715: remote = database.remotes.get(remote_id). *)
SendRead(remote_id) ==
    /\ sendPc = "idle"
    /\ sendLocal' = [NoSendLocal EXCEPT !.remote_id = remote_id,
                                        !.assigned_agent_id = assigned[remote_id]]
    /\ sendResult' = NoSendResult
    /\ sendPc' = "resolve"
    /\ UNCHANGED <<live_agents, assigned, pending_unpair_acks, unpair_published,
                   next_command, delPc, delLocal, delResult, deleted, hub_running,
                   agents, notUnpairVars>>

(* The status_code of the AgentRoutingError the registry raises with a code. *)
RoutingStatus(code) ==
    CASE code = "no_agents" -> 503
      [] code = "agent_offline" -> 503
      [] code = "agent_required" -> 400
      [] OTHER -> 200

(* get_agent_by_id without the lookup in self._agents. *)
GetAgentByIdNoLookup(remote_id, agent_id) ==
    IF agent_id = "" THEN [remote_id |-> remote_id, code |-> "agent_required", agent_id |-> ""]
    ELSE [remote_id |-> remote_id, code |-> "ok", agent_id |-> agent_id]

(* AgentRegistry.get_agent_by_id, lines 90-97 *)
GetAgentById(remote_id, agent_id) ==
    IF agent_id = "" THEN [remote_id |-> remote_id, code |-> "agent_required", agent_id |-> ""]
    ELSE IF agent_id \notin live_agents
    THEN [remote_id |-> remote_id, code |-> "agent_offline", agent_id |-> ""]
    ELSE [remote_id |-> remote_id, code |-> "ok", agent_id |-> agent_id]

(* resolve_agent_for_remote, lines 73-84: the assigned agent, or the only active one. *)
SendResolve ==
    /\ sendPc = "resolve"
    /\ IF sendLocal.assigned_agent_id # ""
       THEN /\ sendResult' = GetAgentById(sendLocal.remote_id, sendLocal.assigned_agent_id)
            /\ sendPc' = "idle"
            /\ sendLocal' = NoSendLocal
       ELSE IF live_agents = {}
       THEN /\ sendResult' = [remote_id |-> sendLocal.remote_id, code |-> "no_agents", agent_id |-> ""]
            /\ sendPc' = "idle"
            /\ sendLocal' = NoSendLocal
       ELSE IF Cardinality(live_agents) = 1
       THEN /\ sendLocal' = [sendLocal EXCEPT !.selected_id = CHOOSE a \in live_agents : TRUE]
            /\ sendPc' = "assign"
            /\ UNCHANGED sendResult
       ELSE /\ sendResult' = [remote_id |-> sendLocal.remote_id, code |-> "agent_required", agent_id |-> ""]
            /\ sendPc' = "idle"
            /\ sendLocal' = NoSendLocal
    /\ UNCHANGED <<live_agents, assigned, pending_unpair_acks, unpair_published,
                   next_command, delPc, delLocal, delResult, deleted, hub_running,
                   agents, notUnpairVars>>

(* resolve_agent_for_remote, line 85: remotes.set_assigned_agent(remote_id, selected_id). *)
SendAssign ==
    /\ sendPc = "assign"
    /\ assigned' = SetAssignedAgent(assigned, sendLocal.remote_id, sendLocal.selected_id)
    /\ sendPc' = "lookup"
    /\ UNCHANGED <<live_agents, pending_unpair_acks, unpair_published, next_command,
                   delPc, delLocal, delResult, sendLocal, sendResult, deleted,
                   hub_running, agents, notUnpairVars>>

(* resolve_agent_for_remote, line 86: return self.get_agent_by_id(selected_id). *)
SendLookup ==
    /\ sendPc = "lookup"
    /\ sendResult' = GetAgentById(sendLocal.remote_id, sendLocal.selected_id)
    /\ sendPc' = "idle"
    /\ sendLocal' = NoSendLocal
    /\ UNCHANGED <<live_agents, assigned, pending_unpair_acks, unpair_published,
                   next_command, delPc, delLocal, delResult, deleted, hub_running,
                   agents, notUnpairVars>>

UnpairNext ==
    \/ LifespanStartup
    \/ \E agent_id \in AgentIds : DeleteBegin(agent_id)
    \/ UnpairTick
    \/ UnpairWaitEnd
    \/ DeleteClear
    \/ DeleteRow
    \/ Unregister
    \/ \E topic \in AckTopics : \E payload \in AckPayloads : OnUnpairAck(topic, payload)
    \/ \E remote_id \in RemoteIds : SendRead(remote_id)
    \/ SendResolve
    \/ SendAssign
    \/ SendLookup

-----------------------------------------------------------------------------
(* PairingManagerAgent: start, stop, _on_pairing_open, _on_pairing_accept  *)
(* and _on_unpair_command, with the binding kept by AgentRuntimeStateStore.*)
(* The three handlers run on the MQTT client's callback thread, one        *)
(* message at a time.                                                      *)

AgentUid == "a1"

OpenTopic == <<"ir", "pairing", "open">>
AcceptFilter == <<"ir", "pairing", "accept", "+", AgentUid>>
UnpairFilter == <<"ir", "pairing", "unpair", "+">>

ExpiresInputs == {0, MaxClock \div 2, MaxClock}
OpenVersions == {<<>>, <<"1", ".", "4">>, <<"2", ".", "0">>}

ParseAcceptTopic(topic) ==
    IF Len(topic) # 5 THEN <<"", "">>
    ELSE IF topic[1] # "ir" \/ topic[2] # "pairing" \/ topic[3] # "accept" THEN <<"", "">>
    ELSE <<topic[4], topic[5]>>

ParseUnpairTopic(topic) ==
    IF Len(topic) # 4 THEN ""
    ELSE IF topic[1] # "ir" \/ topic[2] # "pairing" \/ topic[3] # "unpair" THEN ""
    ELSE topic[4]

AgentIsCompatible(hub_sw_version) ==
    LET hub_major == MajorVersion(hub_sw_version)
        agent_major == MajorVersion(agent_version)
    IN  IF hub_major = <<>> \/ agent_major = <<>> THEN TRUE ELSE hub_major = agent_major

IsBound == pairing_hub_id # ""

AgentInit ==
    /\ pairing_hub_id = ""
    /\ agent_running = FALSE
    /\ listening = FALSE
    /\ subscribed_unpair = FALSE
    /\ active_session_id = ""
    /\ active_nonce = ""
    /\ active_expires_at = 0
    /\ agent_now = 0
    /\ agent_version \in {<<>>, <<"1", ".", "0">>}
    /\ offer_published = None
    /\ ack_published = None
    /\ bound_pairs = {}
    /\ rebound_pairs = {}

AgentStart ==
    /\ ~agent_running
    /\ agent_running' = TRUE
    /\ subscribed_unpair' = TRUE
    /\ listening' = IF IsBound THEN listening ELSE TRUE
    /\ UNCHANGED <<pairing_hub_id, active_session_id, active_nonce, active_expires_at,
                   agent_now, agent_version, offer_published, ack_published, bound_pairs,
                   rebound_pairs, notAgentVars>>

AgentStop ==
    /\ agent_running' = FALSE
    /\ listening' = FALSE
    /\ subscribed_unpair' = FALSE
    /\ active_session_id' = ""
    /\ active_nonce' = ""
    /\ active_expires_at' = 0
    /\ UNCHANGED <<pairing_hub_id, agent_now, agent_version, offer_published,
                   ack_published, bound_pairs, rebound_pairs, notAgentVars>>

AgentTick ==
    /\ agent_now + TickSeconds <= MaxClock
    /\ agent_now' = agent_now + TickSeconds
    /\ UNCHANGED <<pairing_hub_id, agent_running, listening, subscribed_unpair,
                   active_session_id, active_nonce, active_expires_at, agent_version,
                   offer_published, ack_published, bound_pairs, rebound_pairs,
                   notAgentVars>>

(* The open messages the broker can deliver, retained replays included. *)
OpenPairs ==
    {<<SessionId(i), HubNonce(i)>> : i \in 1..MaxSessions}
        \cup {<<"", HubNonce(1)>>, <<SessionId(1), "">>}
OpenPayloads ==
    {None} \cup
    {Some([session_id |-> p[1], nonce |-> p[2], expires_at |-> e, sw_version |-> v]) :
        p \in OpenPairs, e \in ExpiresInputs, v \in OpenVersions}

(* _on_pairing_open, lines 130-157, without the expiry test of lines 146-148. *)
OpenAcceptedNoExpiry(payload) ==
    /\ ~IsBound
    /\ payload # None
    /\ payload[1].session_id # "" /\ payload[1].nonce # ""
    /\ AgentIsCompatible(payload[1].sw_version)
    /\ AgentUid # ""

(* _on_pairing_open, lines 130-157: every early return, in the code's order. *)
OpenAccepted(payload) ==
    /\ ~IsBound
    /\ payload # None
    /\ payload[1].session_id # "" /\ payload[1].nonce # ""
    /\ ~(payload[1].expires_at <= 0 \/ agent_now >= payload[1].expires_at)
    /\ AgentIsCompatible(payload[1].sw_version)
    /\ AgentUid # ""

OfferMessage(session_id, nonce) ==
    [topic |-> OfferTopic(session_id, AgentUid),
     payload |-> [session_id |-> session_id, nonce |-> nonce, agent_uid |-> AgentUid,
                  sw_version |-> agent_version]]

(* _on_pairing_open, lines 129-187 *)
OnPairingOpen(payload) ==
    /\ listening
    /\ IF OpenAccepted(payload)
       THEN /\ active_session_id' = payload[1].session_id
            /\ active_nonce' = payload[1].nonce
            /\ active_expires_at' = payload[1].expires_at
            /\ offer_published' = Some(OfferMessage(payload[1].session_id, payload[1].nonce))
       ELSE UNCHANGED <<active_session_id, active_nonce, active_expires_at, offer_published>>
    /\ UNCHANGED <<pairing_hub_id, agent_running, listening, subscribed_unpair,
                   agent_now, agent_version, ack_published, bound_pairs, rebound_pairs,
                   notAgentVars>>

AcceptTopics ==
    {AcceptTopic(s, a) : s \in SessionIds, a \in AgentIds} \cup {<<"ir", "pairing", "accept", SessionId(1)>>}
AcceptPayloads ==
    {None} \cup
    {Some([session_id |-> s, nonce |-> n, hub_id |-> h]) :
        s \in {"", SessionId(1)}, n \in {""} \cup Nonces, h \in {"", "hub1"}}

(* _on_pairing_accept, lines 190-217 *)
AcceptAccepted(topic, payload) ==
    LET parsed == ParseAcceptTopic(topic) IN
    /\ ~IsBound
    /\ parsed[1] # "" /\ AgentUid # "" /\ parsed[2] = AgentUid
    /\ payload # None
    /\ ~(payload[1].session_id # "" /\ payload[1].session_id # parsed[1])
    /\ payload[1].nonce # ""
    /\ active_session_id # "" /\ active_session_id = parsed[1]
    /\ active_nonce # "" /\ payload[1].nonce = active_nonce
    /\ ~(active_expires_at > 0 /\ agent_now >= active_expires_at)

(* _on_pairing_accept, lines 189-235, with set_binding and _stop_pairing_listeners *)
OnPairingAccept(topic, payload) ==
    /\ listening
    /\ TopicMatches(AcceptFilter, topic)
    /\ IF AcceptAccepted(topic, payload)
       THEN /\ pairing_hub_id' = payload[1].hub_id
            /\ listening' = FALSE
            /\ active_session_id' = ""
            /\ active_nonce' = ""
            /\ active_expires_at' = 0
            /\ IF payload[1].hub_id # ""
               THEN /\ bound_pairs' = bound_pairs \cup {<<active_session_id, active_nonce>>}
                    /\ rebound_pairs' = IF <<active_session_id, active_nonce>> \in bound_pairs
                                        THEN rebound_pairs \cup {<<active_session_id, active_nonce>>}
                                        ELSE rebound_pairs
               ELSE UNCHANGED <<bound_pairs, rebound_pairs>>
       ELSE UNCHANGED <<pairing_hub_id, listening, active_session_id, active_nonce,
                        active_expires_at, bound_pairs, rebound_pairs>>
    /\ UNCHANGED <<agent_running, subscribed_unpair, agent_now, agent_version,
                   offer_published, ack_published, notAgentVars>>

UnpairTopics == {UnpairTopic(a) : a \in AgentIds}
UnpairPayloads == {None} \cup {Some([command_id |-> c]) : c \in {"", CommandId(1)}}

(* _on_unpair_command, lines 237-293 *)
OnUnpairCommand(topic, payload) ==
    /\ subscribed_unpair
    /\ TopicMatches(UnpairFilter, topic)
    /\ IF /\ AgentUid # "" /\ ParseUnpairTopic(topic) # "" /\ ParseUnpairTopic(topic) = AgentUid
          /\ payload # None
          /\ payload[1].command_id # ""
       THEN /\ pairing_hub_id' = ""
            /\ active_session_id' = ""
            /\ active_nonce' = ""
            /\ active_expires_at' = 0
            /\ listening' = IF agent_running THEN TRUE ELSE listening
            /\ ack_published' = Some([topic |-> UnpairAckTopic(AgentUid),
                                      command_id |-> payload[1].command_id])
       ELSE UNCHANGED <<pairing_hub_id, active_session_id, active_nonce, active_expires_at,
                        listening, ack_published>>
    /\ UNCHANGED <<agent_running, subscribed_unpair, agent_now, agent_version,
                   offer_published, bound_pairs, rebound_pairs, notAgentVars>>

AgentNext ==
    \/ AgentStart
    \/ AgentStop
    \/ AgentTick
    \/ \E payload \in OpenPayloads : OnPairingOpen(payload)
    \/ \E topic \in AcceptTopics : \E payload \in AcceptPayloads : OnPairingAccept(topic, payload)
    \/ \E topic \in UnpairTopics : \E payload \in UnpairPayloads : OnUnpairCommand(topic, payload)

-----------------------------------------------------------------------------
(* AgentCommandHandler: start, stop and _on_command; the binding store's   *)
(* _on_state.  The handlers run on the MQTT callback thread, one message   *)
(* at a time.                                                              *)

CommandFilter == <<"ir", "agents", AgentUid, "cmd", "#">>

(* command is the sequence of levels after "cmd". *)
CommandTopic(agent_id, command) == <<"ir", "agents", agent_id, "cmd">> \o command

(* The broker's match against a filter that ends in the multi-level "#". *)
CommandTopicMatches(filter, topic) ==
    /\ Len(filter) > 0
    /\ Len(topic) >= Len(filter) - 1
    /\ \A i \in 1..(Len(filter) - 1) : filter[i] = "+" \/ filter[i] = topic[i]

(* _parse_command_topic: the agent uid and the non-empty levels after "cmd". *)
ParseCommandTopic(topic) ==
    IF Len(topic) < 5 THEN <<"", <<>>>>
    ELSE IF topic[1] # "ir" \/ topic[2] # "agents" \/ topic[4] # "cmd" THEN <<"", <<>>>>
    ELSE <<topic[3], SelectSeq(SubSeq(topic, 5, Len(topic)), LAMBDA p : p # "")>>

KnownCommands ==
    {<<"send">>, <<"learn", "start">>, <<"learn", "capture">>, <<"learn", "stop">>,
     <<"runtime", "debug", "get">>, <<"runtime", "debug", "set">>}

(* What _execute_command does: it returns, or raises one of these. *)
Raised == {"none", "TimeoutError", "ValueError", "RuntimeError", "Exception"}

CommandInit ==
    /\ cmd_running = FALSE
    /\ cmd_subscribed_topic = <<>>
    /\ cmd_request = None
    /\ cmd_executed = <<>>
    /\ cmd_published = <<>>

CommandStart ==
    /\ ~cmd_running
    /\ cmd_running' = TRUE
    /\ cmd_subscribed_topic' = CommandFilter
    /\ UNCHANGED <<cmd_request, cmd_executed, cmd_published, notCmdVars>>

CommandStop ==
    /\ cmd_running' = FALSE
    /\ cmd_subscribed_topic' = <<>>
    /\ UNCHANGED <<cmd_request, cmd_executed, cmd_published, notCmdVars>>

(* _error_response *)
ErrorResponse(request_id, code, status_code) ==
    [request_id |-> request_id, ok |-> FALSE, result |-> None,
     error |-> Some([code |-> code, status_code |-> status_code])]

(* The response with every raised exception answered as a runtime_error. *)
CommandResponseAllRuntime(request_id, command, raised) ==
    IF raised = "none"
    THEN [request_id |-> request_id, ok |-> TRUE, result |-> Some(command), error |-> None]
    ELSE ErrorResponse(request_id, "runtime_error", 409)

(* _on_command, lines 113-187: the response built from what the operation did. *)
CommandResponse(request_id, command, raised) ==
    CASE raised = "none" ->
            [request_id |-> request_id, ok |-> TRUE, result |-> Some(command), error |-> None]
      [] raised = "TimeoutError" -> ErrorResponse(request_id, "timeout", 408)
      [] raised = "ValueError" -> ErrorResponse(request_id, "validation_error", 400)
      [] raised = "RuntimeError" -> ErrorResponse(request_id, "runtime_error", 409)
      [] OTHER -> ErrorResponse(request_id, "internal_error", 500)

(* The requests the broker can deliver: request_id "" and hub_id "" are     *)
(* absent or blank fields, None is a payload that is no JSON object.        *)
CommandTopics ==
    {CommandTopic(AgentUid, c) : c \in {<<"send">>, <<"learn", "start">>, <<"send", "">>, <<"reboot">>}}
    \cup {CommandTopic("a2", <<"send">>), <<"ir", "agents", AgentUid, "cmd">>}
CommandPayloads ==
    {None} \cup {Some([request_id |-> q, hub_id |-> h]) : q \in {""} \cup RequestIds, h \in {""} \cup HubIds}

(* _on_command with the comparison against the binding left out. *)
CommandAcceptedAnyHub(topic, payload) ==
    LET parsed == ParseCommandTopic(topic) IN
    /\ AgentUid # "" /\ parsed[1] # "" /\ parsed[1] = AgentUid
    /\ parsed[2] \in KnownCommands
    /\ payload # None
    /\ payload[1].request_id # "" /\ payload[1].hub_id # ""

(* _on_command, lines 71-96: the checks a request passes before it runs. *)
CommandAccepted(topic, payload) ==
    LET parsed == ParseCommandTopic(topic) IN
    /\ AgentUid # "" /\ parsed[1] # "" /\ parsed[1] = AgentUid
    /\ parsed[2] \in KnownCommands
    /\ payload # None
    /\ payload[1].request_id # "" /\ payload[1].hub_id # ""
    /\ pairing_hub_id # "" /\ payload[1].hub_id = pairing_hub_id

(* _on_command, lines 70-204: cmd_request is the message delivered last,    *)
(* cmd_executed and cmd_published what the handler did for it.             *)
OnCommand(topic, payload) ==
    /\ cmd_subscribed_topic # <<>>
    /\ CommandTopicMatches(cmd_subscribed_topic, topic)
    /\ cmd_request' = Some([topic |-> topic, payload |-> payload])
    /\ IF CommandAccepted(topic, payload)
       THEN \E raised \in Raised :
                LET command == ParseCommandTopic(topic)[2] IN
                /\ cmd_executed' = <<[command |-> command, raised |-> raised]>>
                /\ cmd_published' =
                      <<[topic |-> ResponseTopic(payload[1].hub_id, AgentUid, payload[1].request_id),
                         payload |-> CommandResponse(payload[1].request_id, command, raised)]>>
       ELSE /\ cmd_executed' = <<>>
            /\ cmd_published' = <<>>
    /\ UNCHANGED <<cmd_running, cmd_subscribed_topic, notCmdVars>>

(* AgentRuntimeStateStore._on_state and _apply_state(publish=False): the    *)
(* state topic is subscribed before the pairing manager and the command    *)
(* handler start and until after they stop.  It carries the retained state *)
(* of an earlier run and every state set_binding and clear_binding publish; *)
(* "absent" is a payload without the pairing_hub_id key.                   *)
StatePayloads == {None} \cup {Some(h) : h \in {"absent", ""} \cup HubIds}

OnState(payload) ==
    /\ pairing_hub_id' = IF payload = None \/ payload = Some("absent")
                         THEN pairing_hub_id ELSE payload[1]
    /\ UNCHANGED <<agent_running, listening, subscribed_unpair, active_session_id,
                   active_nonce, active_expires_at, agent_now, agent_version, offer_published,
                   ack_published, bound_pairs, rebound_pairs, notAgentVars>>

CommandNext ==
    \/ CommandStart
    \/ CommandStop
    \/ \E topic \in CommandTopics : \E payload \in CommandPayloads : OnCommand(topic, payload)
    \/ \E payload \in StatePayloads : OnState(payload)
    \/ AgentStart
    \/ \E topic \in UnpairTopics : \E payload \in UnpairPayloads : OnUnpairCommand(topic, payload)

-----------------------------------------------------------------------------
(* POST /send (send_ir) with LocalAgent.send, learn_start and learn_stop;   *)
(* the learning session is the one IrLearningService.start and stop keep.   *)

NoIrResult == [code |-> "", status_code |-> 0]
NoEngineSend == [invoked |-> FALSE, is_learning |-> FALSE, learning_active |-> FALSE]

SendIrInit ==
    /\ irPc = "idle"
    /\ irResult = NoIrResult
    /\ learning_active = FALSE
    /\ engine_send = NoEngineSend

(* send_ir, lines 708-718: the is_learning check, then the button, the      *)
(* signals and the agent are looked up.                                     *)
SendIrCheck ==
    /\ irPc = "idle"
    /\ engine_send' = NoEngineSend
    /\ IF session # None
       THEN /\ irResult' = [code |-> "learning_active", status_code |-> 409]
            /\ UNCHANGED irPc
       ELSE /\ irResult' = NoIrResult
            /\ irPc' = "agent"
    /\ UNCHANGED <<learning_active, notIrVars>>

(* LocalAgent.send, lines 48-57: the flag is read under the lock. *)
LocalAgentCheck ==
    /\ irPc = "agent"
    /\ IF learning_active
       THEN /\ irResult' = [code |-> "Cannot send while learning is active", status_code |-> 400]
            /\ irPc' = "idle"
       ELSE /\ irPc' = "engine"
            /\ UNCHANGED irResult
    /\ UNCHANGED <<learning_active, engine_send, notIrVars>>

(* LocalAgent.send, line 68: self._transport.send(payload), the engine's send. *)
TransportSend ==
    /\ irPc = "engine"
    /\ engine_send' = [invoked |-> TRUE, is_learning |-> session # None,
                       learning_active |-> learning_active]
    /\ irResult' = [code |-> "ok", status_code |-> 200]
    /\ irPc' = "idle"
    /\ UNCHANGED <<learning_active, notIrVars>>

(* LocalAgent.learn_start and learn_stop.  They reach a LocalAgent through  *)
(* _on_command, on the thread that also runs its send, so not between the   *)
(* flag check of a send and its transport call.                             *)
LocalLearnStart ==
    /\ irPc # "engine"
    /\ learning_active' = TRUE
    /\ UNCHANGED <<irPc, irResult, engine_send, notIrVars>>

LocalLearnStop ==
    /\ irPc # "engine"
    /\ learning_active' = FALSE
    /\ UNCHANGED <<irPc, irResult, engine_send, notIrVars>>

SendIrNext ==
    \/ LearnNext
    \/ SendIrCheck
    \/ LocalAgentCheck
    \/ TransportSend
    \/ LocalLearnStart
    \/ LocalLearnStop

-----------------------------------------------------------------------------
(* The hub with its registry: the lifespan start-up, the pairing window and *)
(* POST /pairing/accept/{agent_id}, which registers the accepted agent.     *)

(* pairing_accept, line 417, with AgentRegistry.register_agent: the agent   *)
(* accept_offer returned becomes live and its row is upserted pending=false. *)
RegisterAccepted ==
    /\ hubResult.op = "accept" /\ hubResult.code = "ok"
    /\ live_agents' = live_agents \cup {hubResult.agent_id}
    /\ agents' = [agents EXCEPT ![hubResult.agent_id] = Some(AgentRow(FALSE, ""))]
    /\ hubResult' = NoHubResult
    /\ UNCHANGED <<hub_running, sw_version, hub_session_id, hub_nonce, hub_expires_at,
                   close_timer, clock, next_session, hubPc, hubLocal, retained_open,
                   accept_published, assigned, pending_unpair_acks, unpair_published,
                   next_command, delPc, delLocal, delResult, sendPc, sendLocal, sendResult,
                   deleted, notPairedHubVars>>

PairedHubNext ==
    \/ LifespanStartup
    \/ HubTick
    \/ \E duration_seconds \in DurationInputs : OpenPublish(duration_seconds)
    \/ OpenInstall
    \/ OpenPurge
    \/ ApiClose
    \/ \E t \in {"api", "timer"} : ClosePurge(t)
    \/ TimerFire
    \/ TimerCheck
    \/ TimerClose
    \/ \E topic \in OfferTopics : \E payload \in OfferPayloads : OfferRead(topic, payload)
    \/ OfferUpsert
    \/ \E agent_id \in AgentIds : AcceptBegin(agent_id)
    \/ AcceptLookup
    \/ AcceptCommit
    \/ RegisterAccepted

-----------------------------------------------------------------------------
(* Signals.upsert_press and update_hold over the button_signals table, with *)
(* the buttons its foreign key refers to.  Each call is one statement       *)
(* sequence on its own connection; the calls are taken one after another.   *)
(* buttons.create and the deletion of one button are not in this code base  *)
(* and follow the specification of the buttons table.                       *)

ButtonIds == 1..MaxButtons

(* str.strip() on the texts the calls are given. *)
Strip(text) == IF text = " " THEN "" ELSE text

PressInputs == {"", " ", "p1", "p2"}
HoldInputs == {"", " ", "h1"}
SampleCountInputs == {0, 1}

NoSigResult == [op |-> "", button_id |-> 0, code |-> "", hold_initial |-> ""]
SigResult(op, button_id, code) == [op |-> op, button_id |-> button_id, code |-> code, hold_initial |-> ""]

SignalsInit ==
    /\ buttons = {}
    /\ button_signals = [b \in ButtonIds |-> None]
    /\ pressed = {}
    /\ sigResult = NoSigResult

(* buttons.create(remote_id, name) *)
CreateButton(button_id) ==
    /\ button_id \notin buttons
    /\ buttons' = buttons \cup {button_id}
    /\ sigResult' = SigResult("create", button_id, "ok")
    /\ UNCHANGED <<button_signals, pressed, notSigVars>>

(* DELETE FROM buttons WHERE id = ?, with ON DELETE CASCADE of button_signals. *)
DeleteButton(button_id) ==
    /\ button_id \in buttons
    /\ buttons' = buttons \ {button_id}
    /\ button_signals' = [button_signals EXCEPT ![button_id] = None]
    /\ pressed' = pressed \ {button_id}
    /\ sigResult' = SigResult("delete", button_id, "ok")
    /\ UNCHANGED <<notSigVars>>

(* Remotes.clear_buttons: DELETE FROM buttons WHERE remote_id = ?, with the cascade. *)
ClearButtons ==
    /\ buttons' = {}
    /\ button_signals' = [b \in ButtonIds |-> None]
    /\ pressed' = {}
    /\ sigResult' = SigResult("clear_buttons", 0, "ok")
    /\ UNCHANGED <<notSigVars>>

(* Signals.upsert_press, lines 59-131 *)
UpsertPress(button_id, press_initial, sample_count_press) ==
    /\ IF Strip(press_initial) = ""
       THEN /\ sigResult' = SigResult("upsert_press", button_id, "press_initial must not be empty")
            /\ UNCHANGED <<button_signals, pressed>>
       ELSE IF sample_count_press <= 0
       THEN /\ sigResult' = SigResult("upsert_press", button_id, "sample_count_press must be > 0")
            /\ UNCHANGED <<button_signals, pressed>>
       ELSE IF button_signals[button_id] # None
       THEN /\ button_signals' = [button_signals EXCEPT ![button_id] =
                    Some([@[1] EXCEPT !.press_initial = Strip(press_initial),
                                      !.sample_count_press = sample_count_press])]
            /\ pressed' = pressed \cup {button_id}
            /\ sigResult' = SigResult("upsert_press", button_id, "ok")
       ELSE IF button_id \notin buttons
       THEN /\ sigResult' = SigResult("upsert_press", button_id, "FOREIGN KEY constraint failed")
            /\ UNCHANGED <<button_signals, pressed>>
       ELSE /\ button_signals' = [button_signals EXCEPT ![button_id] =
                    Some([press_initial |-> Strip(press_initial), hold_initial |-> "",
                          sample_count_press |-> sample_count_press, sample_count_hold |-> 0])]
            /\ pressed' = pressed \cup {button_id}
            /\ sigResult' = SigResult("upsert_press", button_id, "ok")
    /\ UNCHANGED <<buttons, notSigVars>>

(* update_hold that writes the hold fields whether or not the row exists. *)
UpdateHoldNoPressCheck(button_id, hold_initial, sample_count_hold) ==
    /\ IF Strip(hold_initial) = ""
       THEN /\ sigResult' = SigResult("update_hold", button_id, "hold_initial must not be empty")
            /\ UNCHANGED button_signals
       ELSE IF sample_count_hold <= 0
       THEN /\ sigResult' = SigResult("update_hold", button_id, "sample_count_hold must be > 0")
            /\ UNCHANGED button_signals
       ELSE /\ button_signals' = [button_signals EXCEPT ![button_id] =
                    Some([press_initial |-> IF @ = None THEN "" ELSE @[1].press_initial,
                          hold_initial |-> Strip(hold_initial),
                          sample_count_press |-> IF @ = None THEN 0 ELSE @[1].sample_count_press,
                          sample_count_hold |-> sample_count_hold])]
            /\ sigResult' = [SigResult("update_hold", button_id, "ok") EXCEPT !.hold_initial = hold_initial]
    /\ UNCHANGED <<buttons, pressed, notSigVars>>

(* Signals.update_hold, lines 133-180 *)
UpdateHold(button_id, hold_initial, sample_count_hold) ==
    /\ IF Strip(hold_initial) = ""
       THEN /\ sigResult' = SigResult("update_hold", button_id, "hold_initial must not be empty")
            /\ UNCHANGED button_signals
       ELSE IF sample_count_hold <= 0
       THEN /\ sigResult' = SigResult("update_hold", button_id, "sample_count_hold must be > 0")
            /\ UNCHANGED button_signals
       ELSE IF button_signals[button_id] = None
       THEN /\ sigResult' = SigResult("update_hold", button_id, "Press signal must be captured before hold")
            /\ UNCHANGED button_signals
       ELSE /\ button_signals' = [button_signals EXCEPT ![button_id] =
                    Some([@[1] EXCEPT !.hold_initial = Strip(hold_initial),
                                      !.sample_count_hold = sample_count_hold])]
            /\ sigResult' = [SigResult("update_hold", button_id, "ok") EXCEPT !.hold_initial = hold_initial]
    /\ UNCHANGED <<buttons, pressed, notSigVars>>

SignalsNext ==
    \/ \E button_id \in ButtonIds : CreateButton(button_id)
    \/ \E button_id \in ButtonIds : DeleteButton(button_id)
    \/ ClearButtons
    \/ \E button_id \in ButtonIds : \E press_initial \in PressInputs :
            \E sample_count_press \in SampleCountInputs :
                UpsertPress(button_id, press_initial, sample_count_press)
    \/ \E button_id \in ButtonIds : \E hold_initial \in HoldInputs :
            \E sample_count_hold \in SampleCountInputs :
                UpdateHold(button_id, hold_initial, sample_count_hold)

-----------------------------------------------------------------------------
(* IrSignalParser: text is a sequence of characters, a token a sequence of   *)
(* characters without white space.                                           *)

Digits == <<"0", "1", "2", "3", "4", "5", "6", "7", "8", "9">>
UpperCase == <<"C", "E", "L", "P", "S", "U">>
LowerCase == <<"c", "e", "l", "p", "s", "u">>
WhiteSpace == {" ", "\t"}

IsDigit(c) == \E d \in 1..10 : Digits[d] = c
DigitValue(c) == (CHOOSE d \in 1..10 : Digits[d] = c) - 1

(* str.lower() of one character and of a token. *)
LowerChar(c) ==
    IF \E k \in 1..Len(UpperCase) : UpperCase[k] = c
    THEN LowerCase[CHOOSE k \in 1..Len(UpperCase) : UpperCase[k] = c]
    ELSE c
Lower(token) == [k \in 1..Len(token) |-> LowerChar(token[k])]

RECURSIVE DigitsValue(_)
DigitsValue(ds) ==
    IF ds = <<>> THEN 0
    ELSE DigitsValue(SubSeq(ds, 1, Len(ds) - 1)) * 10 + DigitValue(ds[Len(ds)])

(* int(token): an optional sign and at least one digit, else ValueError (None). *)
ParseInt(token) ==
    LET signed == token # <<>> /\ token[1] \in {"+", "-"}
        ds == IF signed THEN Tail(token) ELSE token
    IN IF ds = <<>> \/ \E k \in 1..Len(ds) : ~IsDigit(ds[k]) THEN None
       ELSE IF signed /\ token[1] = "-" THEN Some(0 - DigitsValue(ds))
       ELSE Some(DigitsValue(ds))

RECURSIVE FormatNat(_)
FormatNat(n) ==
    IF n < 10 THEN <<Digits[n + 1]>>
    ELSE FormatNat(n \div 10) \o <<Digits[(n % 10) + 1]>>

(* str(int(v)): a minus sign for a negative number, no sign otherwise. *)
FormatInt(v) == IF v < 0 THEN <<"-">> \o FormatNat(0 - v) ELSE FormatNat(v)

(* str.split(): the maximal runs of characters that are not white space. *)
RECURSIVE SplitFrom(_, _, _, _)
SplitFrom(text, i, current, parts) ==
    IF i > Len(text)
    THEN IF current = <<>> THEN parts ELSE Append(parts, current)
    ELSE IF text[i] \in WhiteSpace
    THEN SplitFrom(text, i + 1, <<>>, IF current = <<>> THEN parts ELSE Append(parts, current))
    ELSE SplitFrom(text, i + 1, Append(current, text[i]), parts)
Split(text) == SplitFrom(text, 1, <<>>, <<>>)

(* " ".join(parts) *)
RECURSIVE Join(_)
Join(parts) ==
    IF parts = <<>> THEN <<>>
    ELSE IF Len(parts) = 1 THEN parts[1]
    ELSE parts[1] \o <<" ">> \o Join(Tail(parts))

PulseWord == <<"p", "u", "l", "s", "e">>
SpaceWord == <<"s", "p", "a", "c", "e">>
MetadataWords == {<<"c", "a", "r", "r", "i", "e", "r">>,
                  <<"f", "r", "e", "q", "u", "e", "n", "c", "y">>}

(* The while loop of _parse_tokens over the parts, from index i with the output so far. *)
RECURSIVE ParseParts(_, _, _)
ParseParts(parts, i, out) ==
    IF i > Len(parts) THEN out
    ELSE LET p == parts[i]
             low == Lower(p)
         IN IF p[1] \in {"+", "-"}
            THEN ParseParts(parts, i + 1,
                            IF ParseInt(p) = None THEN out ELSE Append(out, ParseInt(p)[1]))
            ELSE IF low \in {PulseWord, SpaceWord} /\ i + 1 <= Len(parts)
            THEN LET value == ParseInt(parts[i + 1])
                 IN IF value = None THEN ParseParts(parts, i + 2, out)
                    ELSE ParseParts(parts, i + 2,
                                    Append(out, IF low = PulseWord THEN value[1]
                                                ELSE 0 - value[1]))
            ELSE IF low \in MetadataWords /\ i + 1 <= Len(parts)
            THEN ParseParts(parts, i + 2, out)
            ELSE ParseParts(parts, i + 1, out)

ParseTokens(raw) == ParseParts(Split(raw), 1, <<>>)

SameSign(a, b) == (a > 0 /\ b > 0) \/ (a < 0 /\ b < 0)

(* Both merging loops of _normalize: add v to the last element when the signs agree. *)
RECURSIVE Coalesce(_, _, _)
Coalesce(pulses, skipZero, merged) ==
    IF pulses = <<>> THEN merged
    ELSE LET v == Head(pulses)
             n == Len(merged)
         IN IF skipZero /\ v = 0 THEN Coalesce(Tail(pulses), skipZero, merged)
            ELSE IF n = 0 THEN Coalesce(Tail(pulses), skipZero, <<v>>)
            ELSE IF SameSign(merged[n], v)
            THEN Coalesce(Tail(pulses), skipZero, [merged EXCEPT ![n] = merged[n] + v])
            ELSE Coalesce(Tail(pulses), skipZero, Append(merged, v))

(* while merged and merged[-1] < 0: merged.pop() *)
RECURSIVE StripTrailingSpaces(_)
StripTrailingSpaces(merged) ==
    IF merged # <<>> /\ merged[Len(merged)] < 0
    THEN StripTrailingSpaces(SubSeq(merged, 1, Len(merged) - 1))
    ELSE merged

Normalized(pulses) == [error |-> "", pulses |-> pulses]
NormalizeError(message) == [error |-> message, pulses |-> <<>>]

NormalizeKeepTail(pulses) ==
    LET merged == Coalesce(pulses, TRUE, <<>>)
    IN IF merged # <<>> /\ merged[1] < 0
       THEN NormalizeError("Signal starts with a space; cannot normalize")
       ELSE IF merged = <<>> THEN Normalized(<<>>)
       ELSE Normalized(Coalesce(Tail(merged), FALSE, <<merged[1]>>))

Normalize(pulses) ==
    LET merged == Coalesce(pulses, TRUE, <<>>)
    IN IF merged # <<>> /\ merged[1] < 0
       THEN NormalizeError("Signal starts with a space; cannot normalize")
       ELSE LET stripped == StripTrailingSpaces(merged)
            IN IF stripped = <<>> THEN Normalized(<<>>)
               ELSE LET normalized == Coalesce(Tail(stripped), FALSE, <<stripped[1]>>)
                    IN IF normalized[1] < 0
                       THEN NormalizeError("Normalized signal does not start with a pulse")
                       ELSE IF normalized[Len(normalized)] < 0
                       THEN NormalizeError("Normalized signal does not end with a pulse")
                       ELSE Normalized(normalized)

ParseResult(error, pulses, tail_gap_us) ==
    [error |-> error, pulses |-> pulses, tail_gap_us |-> tail_gap_us]

ParseAndNormalize(raw) ==
    LET tokens == ParseTokens(raw)
    IN IF tokens = <<>> THEN ParseResult("No tokens parsed from raw capture", <<>>, None)
       ELSE LET last == tokens[Len(tokens)]
                tail_gap_us == IF last < 0 THEN Some(0 - last) ELSE None
                normal == Normalize(tokens)
            IN IF normal.error # "" THEN ParseResult(normal.error, <<>>, None)
               ELSE IF normal.pulses = <<>>
               THEN ParseResult("Normalized signal is empty", <<>>, None)
               ELSE ParseResult("", normal.pulses, tail_gap_us)

EncodePulses(pulses) == Join([k \in 1..Len(pulses) |-> FormatInt(pulses[k])])

(* The tokens a capture is made of, and the captures of at most MaxTokens of them. *)
CaptureTokens ==
    {<<"+", "9">>, <<"-", "4">>, <<"+", "0">>, <<"5">>, <<"-", "x">>,
     <<"P", "u", "l", "s", "e">>, SpaceWord, <<"c", "a", "r", "r", "i", "e", "r">>}
CaptureParts == UNION {[1..n -> CaptureTokens] : n \in 0..MaxTokens}
RawCaptures == {Join(parts) : parts \in CaptureParts} \cup {<<"\t", "+", "9", " ", " ">>}

(* No capture in hand: the parser of a specification that does not use it. *)
ParserInit ==
    /\ raw_capture = <<>>
    /\ parse_result = None
    /\ reparse_result = None

(* One capture in hand, not parsed yet. *)
CaptureInit ==
    /\ raw_capture \in RawCaptures
    /\ parse_result = None
    /\ reparse_result = None

(* parse_and_normalize(raw) on the capture. *)
ParseCapture ==
    /\ parse_result = None
    /\ parse_result' = Some(ParseAndNormalize(raw_capture))
    /\ UNCHANGED <<raw_capture, reparse_result, notParserVars>>

(* parse_and_normalize(encode_pulses(p)) on the pulses of a successful parse. *)
ReparseEncoded ==
    /\ parse_result # None
    /\ parse_result[1].error = ""
    /\ reparse_result = None
    /\ reparse_result' = Some(ParseAndNormalize(EncodePulses(parse_result[1].pulses)))
    /\ UNCHANGED <<raw_capture, parse_result, notParserVars>>

ParserNext ==
    \/ ParseCapture
    \/ ReparseEncoded

-----------------------------------------------------------------------------
(* IrSignalAggregator: frames are sequences of signed durations, indices     *)
(* count from 0 as enumerate() does, a ratio is <<numerator, denominator>>.  *)

Abs(v) == IF v < 0 THEN 0 - v ELSE v

(* math.ceil(count * ratio) *)
CeilOfProduct(count, ratio) ==
    LET product == count * ratio[1]
    IN IF product % ratio[2] = 0 THEN product \div ratio[2] ELSE (product \div ratio[2]) + 1

(* (len(frame), tuple(1 if v > 0 else -1 for v in frame)) *)
ClusterKey(frame) == <<Len(frame), [k \in 1..Len(frame) |-> IF frame[k] > 0 THEN 1 ELSE -1]>>

(* clusters.setdefault(key, []).append(idx) on the dict in insertion order. *)
AddToCluster(clusters, key, idx) ==
    IF \E c \in 1..Len(clusters) : clusters[c].key = key
    THEN [c \in 1..Len(clusters) |->
            IF clusters[c].key = key
            THEN [clusters[c] EXCEPT !.indices = Append(@, idx)]
            ELSE clusters[c]]
    ELSE Append(clusters, [key |-> key, indices |-> <<idx>>])

(* The loop over enumerate(frames), from list position i. *)
RECURSIVE BuildClusters(_, _, _)
BuildClusters(frame_list, i, clusters) ==
    IF i > Len(frame_list) THEN clusters
    ELSE IF frame_list[i] = <<>> THEN BuildClusters(frame_list, i + 1, clusters)
    ELSE BuildClusters(frame_list, i + 1,
                       AddToCluster(clusters, ClusterKey(frame_list[i]), i - 1))

BestClusterLast(clusters, c, best) ==
    LET sizes == {Len(clusters[k].indices) : k \in 1..Len(clusters)}
        largest == {k \in 1..Len(clusters) : \A n \in sizes : Len(clusters[k].indices) >= n}
    IN clusters[CHOOSE k \in largest : \A other \in largest : k >= other]

(* max(clusters.items(), key=lambda kv: len(kv[1])): the first of the largest. *)
RECURSIVE BestCluster(_, _, _)
BestCluster(clusters, c, best) ==
    IF c > Len(clusters) THEN best
    ELSE IF Len(clusters[c].indices) > Len(best.indices)
    THEN BestCluster(clusters, c + 1, clusters[c])
    ELSE BestCluster(clusters, c + 1, best)

(* sorted(values) *)
RECURSIVE Sorted(_)
Sorted(values) ==
    IF values = <<>> THEN <<>>
    ELSE LET least == CHOOSE k \in 1..Len(values) :
                          \A other \in 1..Len(values) : values[k] <= values[other]
         IN <<values[least]>>
            \o Sorted([k \in 1..(Len(values) - 1) |->
                          IF k < least THEN values[k] ELSE values[k + 1]])

(* _median_int taking the lower of the two middle values *)
MedianIntLower(values) ==
    IF values = <<>> THEN 0
    ELSE values[(Len(values) + 1) \div 2]

(* _median_int: the middle value, or the mean of the two middle values cut to an int. *)
MedianInt(values) ==
    IF values = <<>> THEN 0
    ELSE LET n == Len(values)
             mid == n \div 2
         IN IF n % 2 = 1 THEN values[mid + 1]
            ELSE (values[mid] + values[mid + 1]) \div 2

(* round(m / step): the nearest integer, a tie going to the even one. *)
RoundHalfEven(m, step) ==
    LET quotient == m \div step
        twice == 2 * (m % step)
    IN IF twice < step THEN quotient
       ELSE IF twice > step THEN quotient + 1
       ELSE IF quotient % 2 = 0 THEN quotient ELSE quotient + 1

(* max(1, int(round(m / round_to_us) * round_to_us)) *)
Rounded(m, step) == Max(1, RoundHalfEven(m, step) * step)

AggregateError(message) == [error |-> message, aggregated |-> <<>>, best_indices |-> <<>>]

AggregateFrames(frame_list, step, ratio) ==
    IF frame_list = <<>> THEN AggregateError("frames must not be empty")
    ELSE IF step <= 0 THEN AggregateError("round_to_us must be > 0")
    ELSE IF ratio[1] <= 0 \/ ratio[1] > ratio[2]
    THEN AggregateError("min_match_ratio must be in (0, 1]")
    ELSE LET clusters == BuildClusters(frame_list, 1, <<>>)
         IN IF clusters = <<>> THEN AggregateError("No valid frames to aggregate")
            ELSE LET best == BestCluster(clusters, 2, clusters[1])
                     required == Max(1, CeilOfProduct(Len(frame_list), ratio))
                 IN IF Len(best.indices) < required
                    THEN AggregateError("Not enough matching takes")
                    ELSE [error |-> "",
                          aggregated |->
                              [i \in 1..best.key[1] |->
                                  LET values == Sorted([n \in 1..Len(best.indices) |->
                                                  Abs(frame_list[best.indices[n] + 1][i])])
                                      sign == IF best.key[2][i] > 0 THEN 1 ELSE -1
                                  IN sign * Rounded(MedianInt(values), step)],
                          best_indices |-> best.indices]

(* The frames, rounding steps and ratios aggregate is called with. *)
FrameInputs == {<<>>, <<9>>, <<5>>, <<-4>>, <<9, -4>>, <<15, -6>>}
FrameLists == UNION {[1..n -> FrameInputs] : n \in 0..MaxFrames}
RoundInputs == {0, 1, 4, 10}
RatioInputs == {<<0, 1>>, <<1, 2>>, <<3, 5>>, <<1, 1>>, <<3, 2>>}

(* No frames in hand: the aggregator of a specification that does not use it. *)
AggregatorInit ==
    /\ frames = <<>>
    /\ round_to_us = 1
    /\ min_match_ratio = <<1, 1>>
    /\ aggregate_result = None

(* One list of takes in hand, not aggregated yet. *)
TakesInit ==
    /\ frames \in FrameLists
    /\ round_to_us \in RoundInputs
    /\ min_match_ratio \in RatioInputs
    /\ aggregate_result = None

(* aggregate(frames, round_to_us, min_match_ratio) *)
Aggregate ==
    /\ aggregate_result = None
    /\ aggregate_result' = Some(AggregateFrames(frames, round_to_us, min_match_ratio))
    /\ UNCHANGED <<frames, round_to_us, min_match_ratio, notAggVars>>

AggregatorNext == Aggregate

-----------------------------------------------------------------------------
(* IrSenderService: one button with its stored signals, sent again and again *)

(* decode_pulses: int() of every part of the text. *)
DecodePulses(text) == [k \in 1..Len(Split(text)) |-> ParseInt(Split(text)[k])[1]]

RECURSIVE SumAbs(_)
SumAbs(pulses) == IF pulses = <<>> THEN 0 ELSE Abs(Head(pulses)) + SumAbs(Tail(pulses))

(* math.ceil(a / float(b)) for a >= 0 and b > 0 *)
CeilDiv(a, b) == IF a % b = 0 THEN a \div b ELSE (a \div b) + 1

EstimateRepeatCountFloor(hold_ms, initial_pulses, repeat_pulses, gap_us) ==
    LET target_us == hold_ms * 1000
        repeat_period_us == SumAbs(repeat_pulses) + (IF gap_us > 0 THEN gap_us ELSE 0)
        remaining_us == Max(0, target_us - SumAbs(initial_pulses))
    IN IF repeat_period_us <= 0 THEN 1
       ELSE Max(1, remaining_us \div repeat_period_us)

EstimateRepeatCount(hold_ms, initial_pulses, repeat_pulses, gap_us) ==
    LET target_us == hold_ms * 1000
        initial_us == SumAbs(initial_pulses)
        repeat_us == SumAbs(repeat_pulses)
        repeat_period_us == repeat_us + (IF gap_us > 0 THEN gap_us ELSE 0)
        remaining_us == Max(0, target_us - initial_us)
    IN IF repeat_period_us <= 0 THEN 1
       ELSE Max(1, CeilDiv(remaining_us, repeat_period_us))

SendError(message) == [error |-> message, mode |-> "", hold_ms |-> 0, gap_us |-> None, files |-> <<>>]

(* send(button_id, mode, hold_ms) on the signals row: what it returns or raises, *)
(* with the list of files handed to the engine.                                  *)
SendSignals(signals, mode, hold_ms) ==
    IF mode \notin {"press", "hold"} THEN SendError("mode must be 'press' or 'hold'")
    ELSE IF signals = None THEN SendError("No signals for button")
    ELSE IF mode = "press"
    THEN [error |-> "", mode |-> "press", hold_ms |-> 0, gap_us |-> None, files |-> <<"press_initial">>]
    ELSE IF hold_ms <= 0 THEN SendError("hold_ms is required for mode=hold")
    ELSE IF signals[1].hold_initial = <<>> \/ signals[1].hold_repeat = <<>>
    THEN SendError("Hold signals are missing for this button")
    ELSE IF signals[1].hold_gap_us = None \/ signals[1].hold_gap_us[1] <= 0
    THEN SendError("Hold gap is missing for this button; re-capture hold to compute it")
    ELSE LET hold_gap_us_value == signals[1].hold_gap_us[1]
             repeat_count == EstimateRepeatCount(hold_ms,
                                                 DecodePulses(signals[1].hold_initial),
                                                 DecodePulses(signals[1].hold_repeat),
                                                 hold_gap_us_value)
         IN [error |-> "", mode |-> "hold", hold_ms |-> hold_ms,
             gap_us |-> Some(hold_gap_us_value),
             files |-> <<"hold_initial">> \o [k \in 1..repeat_count |-> "hold_repeat"]]

(* The rows the signals table can hold for the button, and the requests. *)
StoredFrames == {<<>>, <<900, -450, 560>>, <<2400, -600, 1200, -600, 1200>>}
StoredGaps == {None, Some(0), Some(600), Some(2075)}
SignalRows ==
    {None} \cup
    {Some([press_initial |-> EncodePulses(<<900, -450, 560>>),
           hold_initial |-> EncodePulses(i), hold_repeat |-> EncodePulses(r), hold_gap_us |-> g]) :
        i \in StoredFrames, r \in StoredFrames, g \in StoredGaps}
SendModes == {"press", "hold", "toggle"}
HoldMsInputs == 0..MaxHoldMs

SenderInit ==
    /\ stored_signals = None
    /\ send_result = None

StoredInit ==
    /\ stored_signals \in SignalRows
    /\ send_result = None

(* send(): one request on the stored row. *)
Send(mode, hold_ms) ==
    /\ send_result' = Some(SendSignals(stored_signals, mode, hold_ms))
    /\ UNCHANGED <<stored_signals, notSenderVars>>

SenderNext == \E mode \in SendModes : \E hold_ms \in HoldMsInputs : Send(mode, hold_ms)

-----------------------------------------------------------------------------
(* IrLearningService.capture: request threads on one remote's catalog, with  *)
(* the session objects start() builds.  Debug capture rows are off.          *)

CaptureThreads == {"c1", "c2"}
CaptureRemote == 1
ButtonRowIds == 1..MaxButtonRows
SessionObjects == 1..MaxStarts

DefaultRoundToUs == 10
DefaultMinMatchRatio == <<3, 5>>

(* f"BTN_{index:04d}" *)
AutoName(index) == "BTN_000" \o ToString(index)
AutoNames == {AutoName(i) : i \in 1..MaxButtonRows}
ButtonNames == AutoNames \cup {"power"}

(* What ir-ctl writes for a frame followed by a gap: signed durations. *)
SignedToken(v) == IF v > 0 THEN <<"+">> \o FormatNat(v) ELSE FormatInt(v)
RawOf(pulses) == Join([k \in 1..Len(pulses) |-> SignedToken(pulses[k])])

FrameA == <<900, -450, 560>>
FrameB == <<900, -450, 560, -450, 560>>
FrameC == <<920, -450, 560>>

NoSessionObject ==
    [remote_id |-> 0, next_button_index |-> 0, last_button_id |-> 0, last_button_name |-> ""]

NoCaptureLocal ==
    [session |-> 0, mode |-> "", takes |-> 0, overwrite |-> FALSE, button_name |-> "",
     name |-> "", button |-> 0, frames |-> <<>>, tail_gaps |-> <<>>, frame_end_times |-> <<>>,
     press_initial |-> <<>>, sample_count |-> 0]

NoCaptureResult == [error |-> "", button_id |-> 0, hold_gap_us |-> None]
CaptureFailed(message) == [error |-> message, button_id |-> 0, hold_gap_us |-> None]
CaptureDone(button_id, gap) == [error |-> "ok", button_id |-> button_id, hold_gap_us |-> gap]

LearnCaptureInit ==
    /\ cur_session = 0
    /\ session_objects = [s \in SessionObjects |-> NoSessionObject]
    /\ session_count = 0
    /\ start_pc = "idle"
    /\ start_extend = FALSE
    /\ start_result = ""
    /\ button_rows = [n \in ButtonNames |-> 0]
    /\ button_count = 0
    /\ signal_rows = [b \in ButtonRowIds |-> None]
    /\ capPc = [t \in CaptureThreads |-> "idle"]
    /\ capLocal = [t \in CaptureThreads |-> NoCaptureLocal]
    /\ capResult = [t \in CaptureThreads |-> NoCaptureResult]

(* buttons.get_by_name and buttons.get on the remote's rows: the id, or 0. *)
ButtonByName(name) == button_rows[name]
ButtonExists(button_id) == \E n \in ButtonNames : button_rows[n] = button_id
NameOfButton(button_id) == CHOOSE n \in ButtonNames : button_rows[n] = button_id

(* _compute_next_button_index counting the buttons instead of reading their names *)
ComputeNextButtonIndexCounting ==
    Cardinality({n \in ButtonNames : button_rows[n] # 0}) + 1

(* _compute_next_button_index *)
ComputeNextButtonIndex ==
    LET taken == {i \in 1..MaxButtonRows : button_rows[AutoName(i)] # 0}
        best == IF taken = {} THEN 0 ELSE CHOOSE i \in taken : \A other \in taken : i >= other
    IN IF best > 0 THEN best + 1 ELSE 1

(* start() while a session is running: the first locked section raises. *)
SessionStartRunning ==
    /\ start_pc = "idle"
    /\ cur_session # 0
    /\ start_result' = "Learning session is already running"
    /\ UNCHANGED <<cur_session, session_objects, session_count, start_pc, start_extend,
                   button_rows, button_count, signal_rows, capPc, capLocal, capResult,
                   notCapVars>>

(* start() for a remote the remotes table does not hold: remotes.get raises. *)
SessionStartUnknown(remote_id) ==
    /\ start_pc = "idle"
    /\ cur_session = 0
    /\ remote_id # CaptureRemote
    /\ start_result' = "Unknown remote_id"
    /\ UNCHANGED <<cur_session, session_objects, session_count, start_pc, start_extend,
                   button_rows, button_count, signal_rows, capPc, capLocal, capResult,
                   notCapVars>>

(* start(), first locked section, and remotes.get of the remote. *)
SessionStartCheck(extend) ==
    /\ start_pc = "idle"
    /\ cur_session = 0
    /\ session_count < MaxStarts
    /\ start_pc' = "clear"
    /\ start_extend' = extend
    /\ start_result' = ""
    /\ UNCHANGED <<cur_session, session_objects, session_count, button_rows,
                   button_count, signal_rows, capPc, capLocal, capResult, notCapVars>>

(* start(): clear_buttons unless extending, then the session object is built. *)
SessionStartClear ==
    /\ start_pc = "clear"
    /\ IF start_extend
       THEN UNCHANGED <<button_rows, signal_rows>>
       ELSE /\ button_rows' = [n \in ButtonNames |-> 0]
            /\ signal_rows' = [b \in ButtonRowIds |-> None]
    /\ session_count' = session_count + 1
    /\ session_objects' = [session_objects EXCEPT ![session_count + 1] =
            [remote_id |-> CaptureRemote,
             next_button_index |-> IF start_extend THEN ComputeNextButtonIndex ELSE 1,
             last_button_id |-> 0, last_button_name |-> ""]]
    /\ start_pc' = "install"
    /\ UNCHANGED <<cur_session, start_extend, start_result, button_count, capPc,
                   capLocal, capResult, notCapVars>>

(* start(), second locked section. *)
SessionStartInstall ==
    /\ start_pc = "install"
    /\ cur_session' = session_count
    /\ start_pc' = "idle"
    /\ start_result' = "ok"
    /\ UNCHANGED <<session_objects, session_count, start_extend, button_rows,
                   button_count, signal_rows, capPc, capLocal, capResult, notCapVars>>

(* stop() *)
SessionStop ==
    /\ cur_session # 0
    /\ cur_session' = 0
    /\ UNCHANGED <<session_objects, session_count, start_pc, start_extend, start_result,
                   button_rows, button_count, signal_rows, capPc, capLocal, capResult,
                   notCapVars>>

CaptureFail(t, message) ==
    /\ capPc' = [capPc EXCEPT ![t] = "idle"]
    /\ capLocal' = [capLocal EXCEPT ![t] = NoCaptureLocal]
    /\ capResult' = [capResult EXCEPT ![t] = CaptureFailed(message)]

(* capture(): the argument checks and _get_session_or_raise. *)
CaptureBegin(t, remote_id, mode, takes, overwrite, button_name) ==
    /\ capPc[t] = "idle"
    /\ IF mode \notin {"press", "hold"} THEN CaptureFail(t, "mode must be 'press' or 'hold'")
       ELSE IF takes <= 0 THEN CaptureFail(t, "takes must be > 0")
       ELSE IF cur_session = 0 THEN CaptureFail(t, "Learning session is not running")
       ELSE IF session_objects[cur_session].remote_id # remote_id
       THEN CaptureFail(t, "Learning session is running for a different remote")
       ELSE /\ capPc' = [capPc EXCEPT ![t] = IF mode = "press" THEN "press_check" ELSE "hold_check"]
            /\ capLocal' = [capLocal EXCEPT ![t] =
                    [NoCaptureLocal EXCEPT !.session = cur_session, !.mode = mode, !.takes = takes,
                                           !.overwrite = overwrite, !.button_name = button_name]]
            /\ capResult' = [capResult EXCEPT ![t] = NoCaptureResult]
    /\ UNCHANGED <<cur_session, session_objects, session_count, start_pc, start_extend,
                   start_result, button_rows, button_count, signal_rows, notCapVars>>

(* _capture_press with buttons.create moved before the takes. *)
PressCheckCreating(t) ==
    /\ capPc[t] = "press_check"
    /\ LET s == session_objects[capLocal[t].session]
           name == IF capLocal[t].button_name # "" THEN capLocal[t].button_name
                   ELSE AutoName(s.next_button_index)
           existing_button == ButtonByName(name)
           existing_signals == IF existing_button # 0 THEN signal_rows[existing_button] ELSE None
       IN /\ s.next_button_index <= MaxButtonRows
          /\ existing_button = 0 => button_count < MaxButtonRows
          /\ IF existing_signals # None /\ ~capLocal[t].overwrite
             THEN /\ CaptureFail(t, "Press signal already exists (set overwrite=true to replace)")
                  /\ UNCHANGED <<button_rows, button_count>>
             ELSE /\ capPc' = [capPc EXCEPT ![t] = "press_take"]
                  /\ button_rows' = IF existing_button # 0 THEN button_rows
                                    ELSE [button_rows EXCEPT ![name] = button_count + 1]
                  /\ button_count' = IF existing_button # 0 THEN button_count ELSE button_count + 1
                  /\ capLocal' = [capLocal EXCEPT
                          ![t].name = name,
                          ![t].button = IF existing_button # 0 THEN existing_button
                                        ELSE button_count + 1]
                  /\ UNCHANGED capResult
    /\ UNCHANGED <<cur_session, session_objects, session_count, start_pc, start_extend,
                   start_result, signal_rows, notCapVars>>

(* _capture_press up to the check on the existing signals. *)
PressCheck(t) ==
    /\ capPc[t] = "press_check"
    /\ LET s == session_objects[capLocal[t].session]
           name == IF capLocal[t].button_name # "" THEN capLocal[t].button_name
                   ELSE AutoName(s.next_button_index)
           existing_button == ButtonByName(name)
           existing_signals == IF existing_button # 0 THEN signal_rows[existing_button] ELSE None
       IN /\ s.next_button_index <= MaxButtonRows
          /\ IF existing_signals # None /\ ~capLocal[t].overwrite
             THEN CaptureFail(t, "Press signal already exists (set overwrite=true to replace)")
             ELSE /\ capPc' = [capPc EXCEPT ![t] = "press_take"]
                  /\ capLocal' = [capLocal EXCEPT ![t].name = name, ![t].button = existing_button]
                  /\ UNCHANGED capResult
    /\ UNCHANGED <<cur_session, session_objects, session_count, start_pc, start_extend,
                   start_result, button_rows, button_count, signal_rows, notCapVars>>

(* One turn of the loop over the takes: the message never comes. *)
PressTakeTimeout(t) ==
    /\ capPc[t] = "press_take"
    /\ CaptureFail(t, "No IR message received within timeout")
    /\ UNCHANGED <<cur_session, session_objects, session_count, start_pc, start_extend,
                   start_result, button_rows, button_count, signal_rows, notCapVars>>

(* One turn of the loop over the takes: a message is received and parsed. *)
PressTake(t, raw) ==
    /\ capPc[t] = "press_take"
    /\ LET parsed_take == ParseAndNormalize(raw)
       IN IF parsed_take.error # "" THEN CaptureFail(t, parsed_take.error)
          ELSE /\ capLocal' = [capLocal EXCEPT ![t].frames = Append(@, parsed_take.pulses)]
               /\ capPc' = [capPc EXCEPT ![t] =
                       IF Len(capLocal[t].frames) + 1 = capLocal[t].takes
                       THEN "press_create" ELSE "press_take"]
               /\ UNCHANGED capResult
    /\ UNCHANGED <<cur_session, session_objects, session_count, start_pc, start_extend,
                   start_result, button_rows, button_count, signal_rows, notCapVars>>

(* aggregate, encode, and buttons.create when there was no button. *)
PressCreate(t) ==
    /\ capPc[t] = "press_create"
    /\ LET aggregate == AggregateFrames(capLocal[t].frames, DefaultRoundToUs, DefaultMinMatchRatio)
           auto_generated == capLocal[t].button_name = ""
           created == IF ButtonByName(capLocal[t].name) # 0 THEN ButtonByName(capLocal[t].name)
                      ELSE button_count + 1
       IN IF aggregate.error # ""
          THEN /\ CaptureFail(t, aggregate.error)
               /\ UNCHANGED <<button_rows, button_count, session_objects>>
          ELSE /\ capLocal[t].button = 0 => (ButtonByName(capLocal[t].name) # 0 \/ button_count < MaxButtonRows)
               /\ IF capLocal[t].button # 0
                  THEN UNCHANGED <<button_rows, button_count, session_objects>>
                  ELSE /\ button_rows' = [button_rows EXCEPT ![capLocal[t].name] = created]
                       /\ button_count' = IF ButtonByName(capLocal[t].name) # 0 THEN button_count
                                          ELSE button_count + 1
                       /\ session_objects' =
                              IF auto_generated
                              THEN [session_objects EXCEPT ![capLocal[t].session].next_button_index = @ + 1]
                              ELSE session_objects
               /\ capLocal' = [capLocal EXCEPT
                       ![t].button = IF capLocal[t].button # 0 THEN capLocal[t].button ELSE created,
                       ![t].press_initial = EncodePulses(aggregate.aggregated),
                       ![t].sample_count = Len(aggregate.best_indices)]
               /\ capPc' = [capPc EXCEPT ![t] = "press_upsert"]
               /\ UNCHANGED capResult
    /\ UNCHANGED <<cur_session, session_count, start_pc, start_extend, start_result,
                   signal_rows, notCapVars>>

(* signals.upsert_press, then the session's last button. *)
PressUpsert(t) ==
    /\ capPc[t] = "press_upsert"
    /\ LET button_id == capLocal[t].button
       IN IF ~ButtonExists(button_id)
          THEN /\ CaptureFail(t, "FOREIGN KEY constraint failed")
               /\ UNCHANGED <<signal_rows, session_objects>>
          ELSE /\ signal_rows' = [signal_rows EXCEPT ![button_id] =
                       IF @ = None
                       THEN Some([press_initial |-> capLocal[t].press_initial,
                                  sample_count_press |-> capLocal[t].sample_count,
                                  hold_initial |-> <<>>, hold_repeat |-> <<>>,
                                  hold_gap_us |-> None, sample_count_hold |-> 0])
                       ELSE Some([@[1] EXCEPT !.press_initial = capLocal[t].press_initial,
                                              !.sample_count_press = capLocal[t].sample_count])]
               /\ session_objects' = [session_objects EXCEPT
                       ![capLocal[t].session].last_button_id = button_id,
                       ![capLocal[t].session].last_button_name = NameOfButton(button_id)]
               /\ capPc' = [capPc EXCEPT ![t] = "idle"]
               /\ capLocal' = [capLocal EXCEPT ![t] = NoCaptureLocal]
               /\ capResult' = [capResult EXCEPT ![t] = CaptureDone(button_id, None)]
    /\ UNCHANGED <<cur_session, session_count, start_pc, start_extend, start_result,
                   button_rows, button_count, notCapVars>>

(* Two request threads capturing presses while the session is started and stopped. *)
CaptureNext ==
    \/ \E extend \in BOOLEAN : SessionStartCheck(extend)
    \/ SessionStartClear
    \/ SessionStartInstall
    \/ SessionStop
    \/ \E t \in CaptureThreads, overwrite \in BOOLEAN :
           CaptureBegin(t, CaptureRemote, "press", 1, overwrite, "power")
    \/ \E t \in CaptureThreads : PressCheck(t)
    \/ \E t \in CaptureThreads, raw \in {RawOf(FrameA), RawOf(FrameB)} : PressTake(t, raw)
    \/ \E t \in CaptureThreads : PressCreate(t)
    \/ \E t \in CaptureThreads : PressUpsert(t)

(* The requests of one client, one after the other: sessions started,       *)
(* stopped and refused, and presses captured under given and generated      *)
(* names.                                                                   *)
SessionNext ==
    \/ \E extend \in BOOLEAN : capPc["c1"] = "idle" /\ SessionStartCheck(extend)
    \/ SessionStartClear
    \/ SessionStartInstall
    \/ capPc["c1"] = "idle" /\ SessionStartRunning
    \/ capPc["c1"] = "idle" /\ SessionStartUnknown(CaptureRemote + 1)
    \/ capPc["c1"] = "idle" /\ SessionStop
    \/ \E overwrite \in BOOLEAN, button_name \in {"", "power", AutoName(1)} :
           start_pc = "idle" /\ CaptureBegin("c1", CaptureRemote, "press", 1, overwrite, button_name)
    \/ PressCheck("c1")
    \/ PressTakeTimeout("c1")
    \/ PressTake("c1", RawOf(FrameA))
    \/ PressCreate("c1")
    \/ PressUpsert("c1")

(* _median_int of the learning service: sorts, then as the aggregator's. *)
LearnMedianInt(values) == MedianInt(Sorted(values))

EstimateHoldGapUsZero(repeat_gaps) ==
    IF repeat_gaps = <<>> THEN Some(0)
    ELSE Some(LearnMedianInt(repeat_gaps))

(* _estimate_hold_gap_us: None, or Some(gap). *)
EstimateHoldGapUs(repeat_gaps) ==
    IF repeat_gaps = <<>> THEN None
    ELSE IF Len(repeat_gaps) = 1 THEN Some(repeat_gaps[1])
    ELSE IF Len(repeat_gaps) = 2
    THEN Some(IF repeat_gaps[1] <= repeat_gaps[2] THEN repeat_gaps[1] ELSE repeat_gaps[2])
    ELSE LET ordered == Sorted(repeat_gaps)
         IN Some(LearnMedianInt(SubSeq(ordered, 1, Len(ordered) - 1)))

(* _resolve_hold_gap_candidates: tail gaps are None or Some(gap), times are in us. *)
ResolveHoldGapCandidates(tail_gaps, frame_list, frame_end_times) ==
    LET later == SelectSeq(Tail(tail_gaps), LAMBDA gap : gap # None /\ gap[1] > 0)
        tail_candidates ==
            IF later = <<>> /\ tail_gaps # <<>> /\ tail_gaps[1] # None /\ tail_gaps[1][1] > 0
            THEN <<tail_gaps[1]>> ELSE later
        gap_at(idx) == (frame_end_times[idx] - frame_end_times[idx - 1]) - SumAbs(frame_list[idx])
        positive == SelectSeq([k \in 1..(Len(frame_list) - 1) |-> k + 1], LAMBDA idx : gap_at(idx) > 0)
    IN IF tail_candidates # <<>> THEN [k \in 1..Len(tail_candidates) |-> tail_candidates[k][1]]
       ELSE IF Len(frame_list) < 2 \/ Len(frame_end_times) < 2 THEN <<>>
       ELSE [k \in 1..Len(positive) |-> gap_at(positive[k])]

(* IrHoldExtractor.extract *)
HoldExtract(frame_list, step, ratio) ==
    IF frame_list = <<>>
    THEN [error |-> "frames must not be empty", hold_initial |-> <<>>, hold_repeat |-> None,
          repeat_count |-> 0]
    ELSE IF Tail(frame_list) = <<>>
    THEN [error |-> "", hold_initial |-> frame_list[1], hold_repeat |-> None, repeat_count |-> 0]
    ELSE LET repeated == AggregateFrames(Tail(frame_list), step, ratio)
         IN [error |-> repeated.error, hold_initial |-> frame_list[1],
             hold_repeat |-> IF repeated.error = "" THEN Some(repeated.aggregated) ELSE None,
             repeat_count |-> Len(repeated.best_indices)]

(* _capture_hold up to the check on the existing hold signal. *)
HoldCheck(t) ==
    /\ capPc[t] = "hold_check"
    /\ LET s == session_objects[capLocal[t].session]
           named == capLocal[t].button_name # ""
           button_id == IF named THEN ButtonByName(capLocal[t].button_name) ELSE s.last_button_id
       IN IF named /\ button_id = 0 THEN CaptureFail(t, "Unknown button name")
          ELSE IF ~named /\ button_id = 0
          THEN CaptureFail(t, "button_name is required (no previous button in session)")
          ELSE IF ~ButtonExists(button_id) THEN CaptureFail(t, "Unknown button_id")
          ELSE IF signal_rows[button_id] = None
          THEN CaptureFail(t, "Press must be captured before hold can be captured")
          ELSE IF signal_rows[button_id][1].hold_initial # <<>> /\ ~capLocal[t].overwrite
          THEN CaptureFail(t, "Hold signal already exists (set overwrite=true to replace)")
          ELSE /\ capPc' = [capPc EXCEPT ![t] = "hold_first"]
               /\ capLocal' = [capLocal EXCEPT ![t].button = button_id,
                                               ![t].name = NameOfButton(button_id)]
               /\ UNCHANGED capResult
    /\ UNCHANGED <<cur_session, session_objects, session_count, start_pc, start_extend,
                   start_result, button_rows, button_count, signal_rows, notCapVars>>

(* The first message never comes. *)
HoldFirstTimeout(t) ==
    /\ capPc[t] = "hold_first"
    /\ CaptureFail(t, "No IR message received within timeout")
    /\ UNCHANGED <<cur_session, session_objects, session_count, start_pc, start_extend,
                   start_result, button_rows, button_count, signal_rows, notCapVars>>

(* A message of the hold is received, delta_us after the one before, and parsed. *)
HoldReceive(t, raw, delta_us) ==
    /\ capPc[t] \in {"hold_first", "hold_receive"}
    /\ Len(capLocal[t].frames) < MaxHoldFrames
    /\ LET parsed_frame == ParseAndNormalize(raw)
           times == capLocal[t].frame_end_times
       IN IF parsed_frame.error # "" THEN CaptureFail(t, parsed_frame.error)
          ELSE /\ capLocal' = [capLocal EXCEPT
                       ![t].frames = Append(@, parsed_frame.pulses),
                       ![t].tail_gaps = Append(@, parsed_frame.tail_gap_us),
                       ![t].frame_end_times =
                           Append(@, IF times = <<>> THEN 0 ELSE times[Len(times)] + delta_us)]
               /\ capPc' = [capPc EXCEPT ![t] = "hold_receive"]
               /\ UNCHANGED capResult
    /\ UNCHANGED <<cur_session, session_objects, session_count, start_pc, start_extend,
                   start_result, button_rows, button_count, signal_rows, notCapVars>>

(* The button goes idle or the deadline passes: extract, infer the gap, update_hold. *)
HoldIdle(t) ==
    /\ capPc[t] = "hold_receive"
    /\ LET local == capLocal[t]
           extracted == HoldExtract(local.frames, DefaultRoundToUs, DefaultMinMatchRatio)
           hold_gap_us == EstimateHoldGapUs(
                              ResolveHoldGapCandidates(local.tail_gaps, local.frames,
                                                       local.frame_end_times))
           failure ==
               IF Len(local.frames) < 2
               THEN "Hold capture needs at least 2 frames. Hold the button longer or increase timeout_ms."
               ELSE IF extracted.error # "" THEN extracted.error
               ELSE IF extracted.hold_repeat = None
               THEN "Failed to extract a repeat frame from the hold capture"
               ELSE IF hold_gap_us = None
               THEN "Failed to infer hold gap from capture. Hold longer and try again."
               ELSE IF signal_rows[local.button] = None
               THEN "Press signal must be captured before hold"
               ELSE ""
       IN IF failure # ""
          THEN /\ CaptureFail(t, failure)
               /\ UNCHANGED <<signal_rows, session_objects>>
          ELSE /\ signal_rows' = [signal_rows EXCEPT ![local.button] =
                       Some([@[1] EXCEPT !.hold_initial = EncodePulses(extracted.hold_initial),
                                         !.hold_repeat = EncodePulses(extracted.hold_repeat[1]),
                                         !.hold_gap_us = hold_gap_us,
                                         !.sample_count_hold = Len(local.frames)])]
               /\ session_objects' = [session_objects EXCEPT
                       ![local.session].last_button_id = local.button,
                       ![local.session].last_button_name = local.name]
               /\ capPc' = [capPc EXCEPT ![t] = "idle"]
               /\ capLocal' = [capLocal EXCEPT ![t] = NoCaptureLocal]
               /\ capResult' = [capResult EXCEPT ![t] = CaptureDone(local.button, hold_gap_us)]
    /\ UNCHANGED <<cur_session, session_count, start_pc, start_extend, start_result,
                   button_rows, button_count, notCapVars>>

(* The messages of a hold: the raw text and the time since the message before. *)
HoldMessages ==
    {<<RawOf(FrameA \o <<-40000>>), 100000>>, <<RawOf(FrameA), 100000>>, <<RawOf(FrameA), 1000>>,
     <<RawOf(FrameC \o <<-45000>>), 100000>>, <<RawOf(FrameB \o <<-50000>>), 100000>>,
     <<RawOf(<<-450>>), 1000>>}
PressMessages == {RawOf(FrameA), RawOf(FrameC \o <<-30000>>), RawOf(FrameB), RawOf(<<-450>>)}

(* What an earlier capture of presses and holds left in the catalog. *)
PressOnlyRow ==
    Some([press_initial |-> EncodePulses(FrameA), sample_count_press |-> 1,
          hold_initial |-> <<>>, hold_repeat |-> <<>>, hold_gap_us |-> None,
          sample_count_hold |-> 0])
PressAndHoldRow ==
    Some([press_initial |-> EncodePulses(FrameA), sample_count_press |-> 1,
          hold_initial |-> EncodePulses(FrameA), hold_repeat |-> EncodePulses(FrameA),
          hold_gap_us |-> Some(40000), sample_count_hold |-> 2])
Catalogs ==
    {[name |-> "", row |-> None], [name |-> "power", row |-> PressOnlyRow],
     [name |-> "power", row |-> PressAndHoldRow], [name |-> AutoName(1), row |-> PressOnlyRow]}

(* A session over a remote that earlier captures filled, or no session. *)
CatalogInit ==
    \E catalog \in Catalogs, running \in BOOLEAN, remembered \in BOOLEAN :
        /\ button_rows = [n \in ButtonNames |-> IF n = catalog.name THEN 1 ELSE 0]
        /\ button_count = IF catalog.name = "" THEN 0 ELSE 1
        /\ signal_rows = [b \in ButtonRowIds |-> IF b = 1 THEN catalog.row ELSE None]
        /\ cur_session = IF running THEN 1 ELSE 0
        /\ session_count = 1
        /\ session_objects =
               [s \in SessionObjects |->
                   IF s = 1
                   THEN [remote_id |-> CaptureRemote,
                         next_button_index |-> IF catalog.name = AutoName(1) THEN 2 ELSE 1,
                         last_button_id |-> IF remembered /\ catalog.name # "" THEN 1 ELSE 0,
                         last_button_name |-> IF remembered THEN catalog.name ELSE ""]
                   ELSE NoSessionObject]
        /\ start_pc = "idle"
        /\ start_extend = FALSE
        /\ start_result = ""
        /\ capPc = [t \in CaptureThreads |-> "idle"]
        /\ capLocal = [t \in CaptureThreads |-> NoCaptureLocal]
        /\ capResult = [t \in CaptureThreads |-> NoCaptureResult]

(* One capture request, step by step. *)
CaptureCallNext ==
    \/ \E remote_id \in {CaptureRemote, CaptureRemote + 1}, mode \in {"press", "hold", "toggle"},
          takes \in 0..MaxTakes, overwrite \in BOOLEAN, button_name \in {"", "power"} :
           /\ capResult["c1"] = NoCaptureResult
           /\ CaptureBegin("c1", remote_id, mode, takes, overwrite, button_name)
    \/ PressCheck("c1")
    \/ PressTakeTimeout("c1")
    \/ \E raw \in PressMessages : PressTake("c1", raw)
    \/ PressCreate("c1")
    \/ PressUpsert("c1")
    \/ HoldCheck("c1")
    \/ HoldFirstTimeout("c1")
    \/ \E message \in HoldMessages : HoldReceive("c1", message[1], message[2])
    \/ HoldIdle("c1")

-----------------------------------------------------------------------------
(* AgentLogHub: the ring of events per agent and snapshot.  An event is the  *)
(* number of its append for its agent.                                       *)

MAX_LOGS_PER_AGENT == 100

(* The agents the database holds accepted with transport mqtt, and one it does not. *)
TrackedAgents == {"a1", "a2"}
LogAgents == TrackedAgents \cup {"a3"}

LogHubInit ==
    /\ log_events = [a \in LogAgents |-> <<>>]
    /\ log_appended = [a \in LogAgents |-> 0]
    /\ snapshot_result = None

(* deque(maxlen=...).append without the eviction *)
DequeAppendUnbounded(entries, item) == Append(entries, item)

(* deque(maxlen=MAX_LOGS_PER_AGENT).append *)
DequeAppend(entries, item) ==
    IF Len(entries) >= MAX_LOGS_PER_AGENT THEN Append(Tail(entries), item)
    ELSE Append(entries, item)

(* history[-count:] for count >= 1 *)
LastItems(history, count) ==
    IF Len(history) <= count THEN history
    ELSE SubSeq(history, Len(history) - count + 1, Len(history))

(* _on_agent_log: an event with this message arrives on ir/agents/{agent_id}/logs. *)
OnAgentLog(agent_id, message) ==
    /\ log_appended[agent_id] < MaxLogEvents
    /\ IF agent_id \notin TrackedAgents \/ message = ""
       THEN UNCHANGED <<log_events, log_appended>>
       ELSE /\ log_events' = [log_events EXCEPT
                   ![agent_id] = DequeAppend(@, log_appended[agent_id] + 1)]
            /\ log_appended' = [log_appended EXCEPT ![agent_id] = @ + 1]
    /\ UNCHANGED <<snapshot_result, notLogVars>>

(* snapshot(agent_id, limit) *)
Snapshot(agent_id, limit) ==
    /\ LET bounded_limit == Max(1, IF limit < MAX_LOGS_PER_AGENT THEN limit ELSE MAX_LOGS_PER_AGENT)
       IN snapshot_result' = Some([agent_id |-> agent_id, limit |-> limit,
                                   items |-> LastItems(log_events[agent_id], bounded_limit)])
    /\ UNCHANGED <<log_events, log_appended, notLogVars>>

(* The caller has its list. *)
SnapshotReturned ==
    /\ snapshot_result # None
    /\ snapshot_result' = None
    /\ UNCHANGED <<log_events, log_appended, notLogVars>>

LogHubNext ==
    \/ \E agent_id \in LogAgents, message \in {"", "started"} :
           snapshot_result = None /\ OnAgentLog(agent_id, message)
    \/ \E agent_id \in TrackedAgents, limit \in {0, 2, 101} :
           snapshot_result = None /\ Snapshot(agent_id, limit)
    \/ SnapshotReturned

-----------------------------------------------------------------------------
(* IrLearningService._log run by request threads, and StatusCommunication:   *)
(* broadcast schedules one _broadcast_async coroutine per payload on the     *)
(* event loop, which runs its ready tasks in turn; a task sends to the       *)
(* websockets one after the other and waits for each send.  A payload is the *)
(* number of the entry it was broadcast for and the number of entries in it. *)

LogThreads == {"c1", "c2"}

(* list(self._connections): the websockets of two connected clients. *)
StatusConnections == <<"w1", "w2">>
StatusSockets == {StatusConnections[k] : k \in 1..Len(StatusConnections)}

NoLogLocal == [entry |-> 0, logs |-> 0]

StatusInit ==
    /\ status_active = TRUE
    /\ session_log_count = 0
    /\ logPc = [t \in LogThreads |-> "idle"]
    /\ logLocal = [t \in LogThreads |-> NoLogLocal]
    /\ status_tasks = <<>>
    /\ loop_ready = <<>>
    /\ ws_queue = [w \in StatusSockets |-> <<>>]
    /\ ws_received = [w \in StatusSockets |-> <<>>]

(* stop(): self._session = None *)
StatusStop ==
    /\ status_active
    /\ status_active' = FALSE
    /\ UNCHANGED <<session_log_count, logPc, logLocal, status_tasks, loop_ready,
                   ws_queue, ws_received, notStatusVars>>

(* _log, line 382: session.logs.append *)
LogAppend(t) ==
    /\ logPc[t] = "idle"
    /\ session_log_count < MaxLogEntries
    /\ session_log_count' = session_log_count + 1
    /\ logLocal' = [logLocal EXCEPT ![t] = [entry |-> session_log_count + 1, logs |-> 0]]
    /\ logPc' = [logPc EXCEPT ![t] = "build"]
    /\ UNCHANGED <<status_active, status_tasks, loop_ready, ws_queue, ws_received,
                   notStatusVars>>

(* _log, lines 384-385: only for the active session, _session_to_dict reads session.logs. *)
LogBuild(t) ==
    /\ logPc[t] = "build"
    /\ IF status_active
       THEN /\ logLocal' = [logLocal EXCEPT ![t].logs = session_log_count]
            /\ logPc' = [logPc EXCEPT ![t] = "broadcast"]
       ELSE /\ logLocal' = [logLocal EXCEPT ![t] = NoLogLocal]
            /\ logPc' = [logPc EXCEPT ![t] = "idle"]
    /\ UNCHANGED <<status_active, session_log_count, status_tasks, loop_ready, ws_queue,
                   ws_received, notStatusVars>>

(* broadcast: run_coroutine_threadsafe puts the coroutine on the loop. *)
LogBroadcast(t) ==
    /\ logPc[t] = "broadcast"
    /\ status_tasks' = Append(status_tasks, [payload |-> logLocal[t], sent |-> 0])
    /\ loop_ready' = Append(loop_ready, Len(status_tasks) + 1)
    /\ logLocal' = [logLocal EXCEPT ![t] = NoLogLocal]
    /\ logPc' = [logPc EXCEPT ![t] = "idle"]
    /\ UNCHANGED <<status_active, session_log_count, ws_queue, ws_received,
                   notStatusVars>>

(* The loop runs its first ready task: _broadcast_async up to its next await of send_json. *)
LoopRun ==
    /\ loop_ready # <<>>
    /\ LET k == Head(loop_ready)
           task == status_tasks[k]
       IN IF task.sent >= Len(StatusConnections)
          THEN UNCHANGED <<status_tasks, ws_queue>>
          ELSE LET websocket == StatusConnections[task.sent + 1]
               IN /\ ws_queue' = [ws_queue EXCEPT
                          ![websocket] = Append(@, [task |-> k, payload |-> task.payload])]
                  /\ status_tasks' = [status_tasks EXCEPT ![k].sent = @ + 1]
    /\ loop_ready' = Tail(loop_ready)
    /\ UNCHANGED <<status_active, session_log_count, logPc, logLocal, ws_received,
                   notStatusVars>>

(* A send on a websocket completes: its client has the payload, its task can go on. *)
SendDone(websocket) ==
    /\ ws_queue[websocket] # <<>>
    /\ ws_received' = [ws_received EXCEPT
           ![websocket] = Append(@, Head(ws_queue[websocket]).payload)]
    /\ loop_ready' = Append(loop_ready, Head(ws_queue[websocket]).task)
    /\ ws_queue' = [ws_queue EXCEPT ![websocket] = Tail(@)]
    /\ UNCHANGED <<status_active, session_log_count, logPc, logLocal, status_tasks,
                   notStatusVars>>

StatusNext ==
    \/ StatusStop
    \/ \E t \in LogThreads : LogAppend(t)
    \/ \E t \in LogThreads : LogBuild(t)
    \/ \E t \in LogThreads : LogBroadcast(t)
    \/ LoopRun
    \/ \E websocket \in StatusSockets : SendDone(websocket)

-----------------------------------------------------------------------------
(* PairingManagerAgent._on_unpair_command taken step by step on the MQTT     *)
(* callback thread, which runs one handler at a time.                        *)

NoUnpairLocal == [command_id |-> "", running |-> FALSE]

UnpairStepInit ==
    /\ unpair_pc = "idle"
    /\ unpair_local = NoUnpairLocal
    /\ retained_unpair = None
    /\ agent_sent = <<>>

(* Lines 237-261 with the binding kept. *)
UnpairReceiveKeepBinding(topic, payload) ==
    /\ unpair_pc = "idle"
    /\ subscribed_unpair
    /\ TopicMatches(UnpairFilter, topic)
    /\ IF /\ AgentUid # "" /\ ParseUnpairTopic(topic) # "" /\ ParseUnpairTopic(topic) = AgentUid
          /\ payload # None
          /\ payload[1].command_id # ""
       THEN /\ active_session_id' = ""
            /\ active_nonce' = ""
            /\ active_expires_at' = 0
            /\ unpair_local' = [command_id |-> payload[1].command_id, running |-> agent_running]
            /\ retained_unpair' = payload
            /\ agent_sent' = <<"clear_binding">>
            /\ unpair_pc' = "resume"
            /\ UNCHANGED pairing_hub_id
       ELSE UNCHANGED <<pairing_hub_id, active_session_id, active_nonce, active_expires_at,
                        unpair_local, retained_unpair, agent_sent, unpair_pc>>
    /\ UNCHANGED <<agent_running, listening, subscribed_unpair, agent_now, agent_version,
                   offer_published, ack_published, bound_pairs, rebound_pairs, notAgentStepVars>>

(* Lines 237-261: the retained command arrives; the binding and the open context are cleared. *)
UnpairReceive(topic, payload) ==
    /\ unpair_pc = "idle"
    /\ subscribed_unpair
    /\ TopicMatches(UnpairFilter, topic)
    /\ IF /\ AgentUid # "" /\ ParseUnpairTopic(topic) # "" /\ ParseUnpairTopic(topic) = AgentUid
          /\ payload # None
          /\ payload[1].command_id # ""
       THEN /\ pairing_hub_id' = ""
            /\ active_session_id' = ""
            /\ active_nonce' = ""
            /\ active_expires_at' = 0
            /\ unpair_local' = [command_id |-> payload[1].command_id, running |-> agent_running]
            /\ retained_unpair' = payload
            /\ agent_sent' = <<"clear_binding">>
            /\ unpair_pc' = "resume"
       ELSE UNCHANGED <<pairing_hub_id, active_session_id, active_nonce, active_expires_at,
                        unpair_local, retained_unpair, agent_sent, unpair_pc>>
    /\ UNCHANGED <<agent_running, listening, subscribed_unpair, agent_now, agent_version,
                   offer_published, ack_published, bound_pairs, rebound_pairs, notAgentStepVars>>

(* Lines 263-264 with _start_pairing_listeners: subscribe may raise, which is logged. *)
UnpairResume(subscribed) ==
    /\ unpair_pc = "resume"
    /\ IF unpair_local.running /\ ~listening
       THEN /\ listening' = subscribed
            /\ agent_sent' = Append(agent_sent, "subscribe")
       ELSE UNCHANGED <<listening, agent_sent>>
    /\ unpair_pc' = "ack"
    /\ UNCHANGED <<pairing_hub_id, agent_running, subscribed_unpair, active_session_id,
                   active_nonce, active_expires_at, agent_now, agent_version, offer_published,
                   ack_published, bound_pairs, rebound_pairs, unpair_local, retained_unpair,
                   notAgentStepVars>>

(* Lines 266-280: the ack is published, or publish raises and the handler ends. *)
UnpairAck(published) ==
    /\ unpair_pc = "ack"
    /\ IF published
       THEN /\ ack_published' = Some([topic |-> UnpairAckTopic(AgentUid),
                                      command_id |-> unpair_local.command_id])
            /\ agent_sent' = Append(agent_sent, "ack")
            /\ unpair_pc' = "clear_retained"
            /\ UNCHANGED unpair_local
       ELSE /\ unpair_pc' = "idle"
            /\ unpair_local' = NoUnpairLocal
            /\ UNCHANGED <<ack_published, agent_sent>>
    /\ UNCHANGED <<pairing_hub_id, agent_running, listening, subscribed_unpair,
                   active_session_id, active_nonce, active_expires_at, agent_now, agent_version,
                   offer_published, bound_pairs, rebound_pairs, retained_unpair,
                   notAgentStepVars>>

(* Lines 281-293: the retained command is cleared with an empty retained message. *)
UnpairClearRetained(published) ==
    /\ unpair_pc = "clear_retained"
    /\ IF published
       THEN /\ retained_unpair' = None
            /\ agent_sent' = Append(agent_sent, "clear_retained")
       ELSE UNCHANGED <<retained_unpair, agent_sent>>
    /\ unpair_pc' = "idle"
    /\ unpair_local' = NoUnpairLocal
    /\ UNCHANGED <<agentVars, notAgentStepVars>>

AgentUnpairNext ==
    \/ AgentStart
    \/ AgentStop
    \/ AgentTick
    \/ \E payload \in OpenPayloads : unpair_pc = "idle" /\ OnPairingOpen(payload)
    \/ \E topic \in AcceptTopics : \E payload \in AcceptPayloads :
           unpair_pc = "idle" /\ OnPairingAccept(topic, payload)
    \/ \E topic \in UnpairTopics : \E payload \in UnpairPayloads : UnpairReceive(topic, payload)
    \/ \E subscribed \in BOOLEAN : UnpairResume(subscribed)
    \/ \E published \in BOOLEAN : UnpairAck(published)
    \/ \E published \in BOOLEAN : UnpairClearRetained(published)

-----------------------------------------------------------------------------
(* AgentRuntimeStateStore: the in-memory state, the retained snapshot on     *)
(* ir/agents/{id}/state and the copies of its own publications the broker    *)
(* delivers back to the subscription of start().  Mutators run on the        *)
(* threads of StoreThreads, _on_state on the MQTT thread.                    *)

StoreThreads == {"m1", "m2"}
StoreHubIds == {"h1"}

NoStoreLocal == [kind |-> "", payload |-> None, debug_changed |-> FALSE, overtaken |-> FALSE]

(* The JSON object of a snapshot, and the partial objects the mutators apply. *)
StatePayload(hub_id, debug_flag) ==
    [has_hub |-> TRUE, pairing_hub_id |-> hub_id, has_debug |-> TRUE, debug |-> debug_flag]
BindingPayload(hub_id) ==
    [has_hub |-> TRUE, pairing_hub_id |-> hub_id, has_debug |-> FALSE, debug |-> FALSE]
DebugPayload(debug_flag) ==
    [has_hub |-> FALSE, pairing_hub_id |-> "", has_debug |-> TRUE, debug |-> debug_flag]

StoreInit ==
    /\ store_running = FALSE
    /\ store_hub_id = ""
    /\ store_debug = FALSE
    /\ storePc = [t \in StoreThreads |-> "idle"]
    /\ storeLocal = [t \in StoreThreads |-> NoStoreLocal]
    /\ retained_state = None
    /\ state_inbox = <<>>
    /\ store_calls = 0
    /\ binding_cleared = FALSE
    /\ debug_level = FALSE

(* start(): subscribe, after which the broker delivers the retained state. *)
StoreStart ==
    /\ ~store_running
    /\ \A t \in StoreThreads : storePc[t] = "idle"
    /\ store_calls < MaxStoreCalls
    /\ store_calls' = store_calls + 1
    /\ store_running' = TRUE
    /\ state_inbox' = IF retained_state = None THEN <<>> ELSE <<retained_state[1]>>
    /\ binding_cleared' = FALSE
    /\ UNCHANGED <<store_hub_id, store_debug, storePc, storeLocal, retained_state,
                   debug_level, notStoreVars>>

(* stop(): forget the topic and unsubscribe. *)
StoreStop ==
    /\ store_running
    /\ \A t \in StoreThreads : storePc[t] = "idle"
    /\ store_running' = FALSE
    /\ state_inbox' = <<>>
    /\ binding_cleared' = FALSE
    /\ UNCHANGED <<store_hub_id, store_debug, storePc, storeLocal, retained_state,
                   store_calls, debug_level, notStoreVars>>

(* _apply_state, lines 135-142: the fields the payload carries, under the lock. *)
AppliedHubId(payload) == IF payload.has_hub THEN payload.pairing_hub_id ELSE store_hub_id
AppliedDebug(payload) == IF payload.has_debug THEN payload.debug ELSE store_debug

(* set_binding, clear_binding or set_debug: _apply_state(payload, publish=True) up to line 142. *)
MutatorApply(t, kind, payload) ==
    /\ storePc[t] = "idle"
    /\ store_calls < MaxStoreCalls
    /\ store_calls' = store_calls + 1
    /\ store_hub_id' = AppliedHubId(payload)
    /\ store_debug' = AppliedDebug(payload)
    /\ storeLocal' = [u \in StoreThreads |->
            IF u = t
            THEN [kind |-> kind, payload |-> None,
                  debug_changed |-> store_debug # AppliedDebug(payload), overtaken |-> FALSE]
            ELSE [storeLocal[u] EXCEPT
                    !.overtaken = @ \/ (kind = "set_binding" /\ storeLocal[u].kind = "clear_binding")]]
    /\ storePc' = [storePc EXCEPT ![t] = "build"]
    /\ binding_cleared' = IF kind = "set_binding" THEN FALSE ELSE binding_cleared
    /\ UNCHANGED <<store_running, retained_state, state_inbox, debug_level, notStoreVars>>

(* _publish_state, lines 157-161: the snapshot, built under the lock. *)
PublishBuild(t) ==
    /\ storePc[t] = "build"
    /\ storeLocal' = [storeLocal EXCEPT ![t].payload = Some(StatePayload(store_hub_id, store_debug))]
    /\ storePc' = [storePc EXCEPT ![t] = "send"]
    /\ UNCHANGED <<store_running, store_hub_id, store_debug, retained_state, state_inbox,
                   store_calls, binding_cleared, debug_level, notStoreVars>>

(* The mutator of thread t has returned. *)
MutatorReturned(t) ==
    /\ storePc' = [storePc EXCEPT ![t] = "idle"]
    /\ storeLocal' = [storeLocal EXCEPT ![t] = NoStoreLocal]
    /\ binding_cleared' =
            IF storeLocal[t].kind = "clear_binding"
            THEN /\ store_running
                 /\ ~storeLocal[t].overtaken
                 /\ \A u \in StoreThreads \ {t} : storeLocal[u].kind # "set_binding"
            ELSE binding_cleared

(* _publish_state, lines 162-170: the retained publish; the subscription gets a copy. *)
PublishSend(t) ==
    /\ storePc[t] = "send"
    /\ retained_state' = storeLocal[t].payload
    /\ state_inbox' = IF store_running THEN Append(state_inbox, storeLocal[t].payload[1])
                      ELSE state_inbox
    /\ IF storeLocal[t].debug_changed
       THEN /\ storePc' = [storePc EXCEPT ![t] = "notify"]
            /\ UNCHANGED <<storeLocal, binding_cleared>>
       ELSE MutatorReturned(t)
    /\ UNCHANGED debug_level
    /\ UNCHANGED <<store_running, store_hub_id, store_debug, store_calls, notStoreVars>>

(* _apply_state, lines 146-150: debug_handler(self.debug_enabled()). *)
MutatorNotify(t) ==
    /\ storePc[t] = "notify"
    /\ debug_level' = store_debug
    /\ MutatorReturned(t)
    /\ UNCHANGED <<store_running, store_hub_id, store_debug, retained_state, state_inbox,
                   store_calls, notStoreVars>>

(* _on_state: the next message of the subscription, applied with publish=False. *)
OnStateDelivered ==
    /\ store_running
    /\ state_inbox # <<>>
    /\ LET payload == Head(state_inbox) IN
        /\ store_hub_id' = AppliedHubId(payload)
        /\ store_debug' = AppliedDebug(payload)
        /\ debug_level' = IF store_debug # AppliedDebug(payload) THEN AppliedDebug(payload)
                          ELSE debug_level
    /\ state_inbox' = Tail(state_inbox)
    /\ UNCHANGED <<store_running, storePc, storeLocal, retained_state, store_calls,
                   binding_cleared, notStoreVars>>

StoreNext ==
    \/ StoreStart
    \/ StoreStop
    \/ \E t \in StoreThreads :
        \/ \E hub_id \in StoreHubIds : MutatorApply(t, "set_binding", BindingPayload(hub_id))
        \/ MutatorApply(t, "clear_binding", BindingPayload(""))
        \/ \E enabled \in BOOLEAN : MutatorApply(t, "set_debug", DebugPayload(enabled))
        \/ PublishBuild(t)
        \/ PublishSend(t)
        \/ MutatorNotify(t)
    \/ OnStateDelivered

-----------------------------------------------------------------------------
(* IrLearningService.apply_learning_settings beside the captures that read   *)
(* the tuning values when they call the aggregator.  A settings dict is a    *)
(* function from its keys; a ratio is <<numerator, denominator>>.            *)

StoredSettings ==
    [aggregate_round_to_us |-> 10, aggregate_min_match_ratio |-> <<3, 5>>,
     hold_idle_timeout_ms |-> 300]
UpdatedSettings ==
    [aggregate_round_to_us |-> 20, aggregate_min_match_ratio |-> <<4, 5>>,
     hold_idle_timeout_ms |-> 500]
SettingsInputs ==
    {<<>>, StoredSettings, UpdatedSettings, [aggregate_round_to_us |-> 5]}

NoAggregateArgs == [round_to_us_arg |-> 0, min_match_ratio_arg |-> <<0, 1>>]

SettingsInit ==
    /\ aggregate_round_to_us = DefaultRoundToUs
    /\ aggregate_min_match_ratio = DefaultMinMatchRatio
    /\ hold_idle_timeout_ms = 300
    /\ applyPc = "idle"
    /\ applyLocal = <<>>
    /\ apply_count = 0
    /\ tuningPc = [t \in CaptureThreads |-> "idle"]
    /\ aggregate_args = [t \in CaptureThreads |-> NoAggregateArgs]
    /\ applied_pairs = {<<DefaultRoundToUs, DefaultMinMatchRatio>>}

(* apply_learning_settings, lines 138-141: return on an empty dict, else take the lock. *)
ApplyBegin(settings) ==
    /\ applyPc = "idle"
    /\ apply_count < MaxApplies
    /\ apply_count' = apply_count + 1
    /\ IF settings = <<>>
       THEN UNCHANGED <<applyPc, applyLocal>>
       ELSE /\ applyPc' = "round_to_us"
            /\ applyLocal' = settings
    /\ UNCHANGED <<aggregate_round_to_us, aggregate_min_match_ratio,
                   hold_idle_timeout_ms, tuningPc, aggregate_args, applied_pairs,
                   notTuningVars>>

(* lines 141-142 *)
ApplyRoundToUs ==
    /\ applyPc = "round_to_us"
    /\ aggregate_round_to_us' =
            IF "aggregate_round_to_us" \in DOMAIN applyLocal
            THEN applyLocal.aggregate_round_to_us ELSE aggregate_round_to_us
    /\ applyPc' = "min_match_ratio"
    /\ UNCHANGED <<aggregate_min_match_ratio, hold_idle_timeout_ms, applyLocal,
                   apply_count, tuningPc, aggregate_args, applied_pairs, notTuningVars>>

(* lines 143-144 *)
ApplyMinMatchRatio ==
    /\ applyPc = "min_match_ratio"
    /\ aggregate_min_match_ratio' =
            IF "aggregate_min_match_ratio" \in DOMAIN applyLocal
            THEN applyLocal.aggregate_min_match_ratio ELSE aggregate_min_match_ratio
    /\ applyPc' = "hold_idle"
    /\ UNCHANGED <<aggregate_round_to_us, hold_idle_timeout_ms, applyLocal, apply_count,
                   tuningPc, aggregate_args, applied_pairs, notTuningVars>>

(* lines 145-146, and the lock is released. *)
ApplyHoldIdle ==
    /\ applyPc = "hold_idle"
    /\ hold_idle_timeout_ms' =
            IF "hold_idle_timeout_ms" \in DOMAIN applyLocal
            THEN applyLocal.hold_idle_timeout_ms ELSE hold_idle_timeout_ms
    /\ applyPc' = "idle"
    /\ applyLocal' = <<>>
    /\ applied_pairs' = applied_pairs \cup {<<aggregate_round_to_us, aggregate_min_match_ratio>>}
    /\ UNCHANGED <<aggregate_round_to_us, aggregate_min_match_ratio, apply_count,
                   tuningPc, aggregate_args, notTuningVars>>

(* _capture_press line 202, _capture_hold line 305: round_to_us is read for the call. *)
ReadRoundToUs(t) ==
    /\ tuningPc[t] = "idle"
    /\ aggregate_args' = [aggregate_args EXCEPT
            ![t] = [round_to_us_arg |-> aggregate_round_to_us, min_match_ratio_arg |-> <<0, 1>>]]
    /\ tuningPc' = [tuningPc EXCEPT ![t] = "min_match_ratio"]
    /\ UNCHANGED <<aggregate_round_to_us, aggregate_min_match_ratio,
                   hold_idle_timeout_ms, applyPc, applyLocal, apply_count, applied_pairs,
                   notTuningVars>>

(* lines 203 and 306: min_match_ratio is read and aggregate is called. *)
ReadMinMatchRatio(t) ==
    /\ tuningPc[t] = "min_match_ratio"
    /\ aggregate_args' = [aggregate_args EXCEPT ![t].min_match_ratio_arg = aggregate_min_match_ratio]
    /\ tuningPc' = [tuningPc EXCEPT ![t] = "aggregate"]
    /\ UNCHANGED <<aggregate_round_to_us, aggregate_min_match_ratio,
                   hold_idle_timeout_ms, applyPc, applyLocal, apply_count, applied_pairs,
                   notTuningVars>>

(* aggregate returns. *)
AggregateReturned(t) ==
    /\ tuningPc[t] = "aggregate"
    /\ tuningPc' = [tuningPc EXCEPT ![t] = "idle"]
    /\ aggregate_args' = [aggregate_args EXCEPT ![t] = NoAggregateArgs]
    /\ UNCHANGED <<aggregate_round_to_us, aggregate_min_match_ratio,
                   hold_idle_timeout_ms, applyPc, applyLocal, apply_count, applied_pairs,
                   notTuningVars>>

SettingsNext ==
    \/ \E settings \in SettingsInputs : ApplyBegin(settings)
    \/ ApplyRoundToUs
    \/ ApplyMinMatchRatio
    \/ ApplyHoldIdle
    \/ \E t \in CaptureThreads :
        \/ ReadRoundToUs(t)
        \/ ReadMinMatchRatio(t)
        \/ AggregateReturned(t)

-----------------------------------------------------------------------------
(* AgentRegistry.register_agent and unregister_agent called from request     *)
(* threads: the live map changes under the registry's lock, the agents row   *)
(* in a database call after the lock is released.                            *)

RegistryThreads == {"r1", "r2"}

RegistryCallsInit ==
    /\ regPc = [t \in RegistryThreads |-> "idle"]
    /\ regLocal = [t \in RegistryThreads |-> ""]
    /\ reg_calls = 0

(* register_agent, lines 18-19: the agent is stored in the live map. *)
RegisterLive(t, agent_id) ==
    /\ regPc[t] = "idle"
    /\ reg_calls < MaxRegistryCalls
    /\ reg_calls' = reg_calls + 1
    /\ live_agents' = live_agents \cup {agent_id}
    /\ regPc' = [regPc EXCEPT ![t] = "upsert"]
    /\ regLocal' = [regLocal EXCEPT ![t] = agent_id]
    /\ UNCHANGED <<assigned, pending_unpair_acks, unpair_published, next_command, delPc,
                   delLocal, delResult, sendPc, sendLocal, sendResult, deleted, hub_running,
                   agents, notUnpairRegVars>>

(* register_agent, lines 20-35: agents.upsert with status online and pending false. *)
RegisterUpsert(t) ==
    /\ regPc[t] = "upsert"
    /\ agents' = [agents EXCEPT ![regLocal[t]] = Some(AgentRow(FALSE, ""))]
    /\ regPc' = [regPc EXCEPT ![t] = "idle"]
    /\ regLocal' = [regLocal EXCEPT ![t] = ""]
    /\ UNCHANGED <<live_agents, assigned, pending_unpair_acks, unpair_published, next_command,
                   delPc, delLocal, delResult, sendPc, sendLocal, sendResult, deleted,
                   hub_running, reg_calls, notUnpairRegVars>>

(* unregister_agent, lines 38-39: the agent is taken out of the live map. *)
UnregisterPop(t, agent_id) ==
    /\ regPc[t] = "idle"
    /\ reg_calls < MaxRegistryCalls
    /\ reg_calls' = reg_calls + 1
    /\ live_agents' = live_agents \ {agent_id}
    /\ regPc' = [regPc EXCEPT ![t] = "set_status"]
    /\ regLocal' = [regLocal EXCEPT ![t] = agent_id]
    /\ UNCHANGED <<assigned, pending_unpair_acks, unpair_published, next_command, delPc,
                   delLocal, delResult, sendPc, sendLocal, sendResult, deleted, hub_running,
                   agents, notUnpairRegVars>>

(* unregister_agent, line 40: agents.set_status(agent_id, "offline"). *)
UnregisterSetStatus(t) ==
    /\ regPc[t] = "set_status"
    /\ agents' = [agents EXCEPT ![regLocal[t]] =
                    IF @ = None THEN None ELSE Some([@[1] EXCEPT !.status = "offline"])]
    /\ regPc' = [regPc EXCEPT ![t] = "idle"]
    /\ regLocal' = [regLocal EXCEPT ![t] = ""]
    /\ UNCHANGED <<live_agents, assigned, pending_unpair_acks, unpair_published, next_command,
                   delPc, delLocal, delResult, sendPc, sendLocal, sendResult, deleted,
                   hub_running, reg_calls, notUnpairRegVars>>

RegistryNext ==
    \E t \in RegistryThreads :
        \/ \E agent_id \in AgentIds : RegisterLive(t, agent_id)
        \/ RegisterUpsert(t)
        \/ \E agent_id \in AgentIds : UnregisterPop(t, agent_id)
        \/ UnregisterSetStatus(t)

-----------------------------------------------------------------------------
(* IrCtlEngine.receive_one_message: a scratch file is created for ir-ctl to  *)
(* write the capture to, the receiver process is run, the file is read and   *)
(* removed.                                                                  *)

TimeoutInputs == {0, 100}
WidebandInputs == {None, Some(TRUE), Some(FALSE)}
ReturnCodes == {0, 1}
ProcessTexts == {<<>>, <<"e">>}
ScratchTexts == {<<>>, <<" ">>, <<"+", "9">>, <<" ", "+", "9", "\n">>}

IsWhitespace(char) == char \in {" ", "\n", "\t"}

(* str.strip(): the text without its leading and trailing whitespace. *)
RECURSIVE StripText(_)
StripText(text) ==
    IF text = <<>> THEN <<>>
    ELSE IF IsWhitespace(text[1]) THEN StripText(Tail(text))
    ELSE IF IsWhitespace(text[Len(text)]) THEN StripText(SubSeq(text, 1, Len(text) - 1))
    ELSE text

EngineInit ==
    /\ rx_pc = "idle"
    /\ rx_path = 0
    /\ rx_cmd = <<>>
    /\ scratch_files = {}
    /\ scratch_text = <<>>
    /\ rx_proc = None
    /\ rx_raw = <<>>
    /\ rx_result = None
    /\ rx_calls = 0

(* The outcome of a call: what it raised, or "ok" and the triple it returned. *)
ReceiveRaised(kind) == Some([kind |-> kind, raw |-> <<>>, stdout |-> <<>>, stderr |-> <<>>])

(* _safe_remove: the file is removed when it exists. *)
SafeRemove(files, path) == files \ {path}

(* _read_all_text: the stripped content of the file, "" when the file is missing. *)
ReadAllText(files, path, text) == IF path \in files THEN StripText(text) ELSE <<>>

(* Lines 15-16: a timeout that is not positive is refused before any file is made. *)
ReceiveRefused(timeout_ms) ==
    /\ rx_pc = "idle"
    /\ rx_calls < MaxReceiveCalls
    /\ timeout_ms <= 0
    /\ rx_calls' = rx_calls + 1
    /\ rx_result' = ReceiveRaised("ValueError")
    /\ UNCHANGED <<rx_pc, rx_path, rx_cmd, scratch_files, scratch_text, rx_proc, rx_raw,
                   notRxVars>>

(* Lines 18-31: the scratch file is created, closed and kept, and the command line built. *)
ReceiveCreate(timeout_ms, wideband) ==
    /\ rx_pc = "idle"
    /\ rx_calls < MaxReceiveCalls
    /\ timeout_ms > 0
    /\ rx_calls' = rx_calls + 1
    /\ LET use_wideband == IF wideband = None THEN FALSE ELSE wideband[1]
           path == rx_calls + 1
       IN /\ rx_path' = path
          /\ scratch_files' = scratch_files \cup {path}
          /\ rx_cmd' = <<"ir-ctl", "-d", "rx", <<"--receive=", path>>, "--one-shot">>
                       \o (IF use_wideband THEN <<"--wideband">> ELSE <<>>)
    /\ scratch_text' = <<>>
    /\ rx_proc' = None
    /\ rx_raw' = <<>>
    /\ rx_result' = None
    /\ rx_pc' = "run"
    /\ UNCHANGED <<notRxVars>>

(* Lines 40-42: subprocess.run raises TimeoutExpired; the file is removed and *)
(* TimeoutError raised. ir-ctl may have written to the file before.           *)
RunTimeout(text) ==
    /\ rx_pc = "run"
    /\ scratch_files' = SafeRemove(scratch_files, rx_path)
    /\ scratch_text' = text
    /\ rx_result' = ReceiveRaised("TimeoutError")
    /\ rx_pc' = "idle"
    /\ UNCHANGED <<rx_path, rx_cmd, rx_proc, rx_raw, rx_calls, notRxVars>>

(* Lines 34-39: subprocess.run raises something else (ir-ctl is not installed, *)
(* it may not be executed); no except clause matches and the call ends.        *)
RunRaises ==
    /\ rx_pc = "run"
    /\ rx_result' = ReceiveRaised("OSError")
    /\ rx_pc' = "idle"
    /\ UNCHANGED <<rx_path, rx_cmd, scratch_files, scratch_text, rx_proc, rx_raw,
                   rx_calls, notRxVars>>

(* Lines 34-45: the process ends with a return code, having written text to the file. *)
RunReturns(returncode, text, stdout, stderr) ==
    /\ rx_pc = "run"
    /\ scratch_text' = text
    /\ rx_proc' = Some([returncode |-> returncode, stdout |-> StripText(stdout),
                        stderr |-> StripText(stderr)])
    /\ rx_pc' = "read"
    /\ UNCHANGED <<rx_path, rx_cmd, scratch_files, rx_raw, rx_result, rx_calls,
                   notRxVars>>

(* Lines 47-49: the file is read. *)
ReadText ==
    /\ rx_pc = "read"
    /\ rx_raw' = ReadAllText(scratch_files, rx_path, scratch_text)
    /\ rx_pc' = "remove"
    /\ UNCHANGED <<rx_path, rx_cmd, scratch_files, scratch_text, rx_proc, rx_result,
                   rx_calls, notRxVars>>

(* Lines 49-51: reading raises; the finally clause removes the file on the way out. *)
ReadRaises ==
    /\ rx_pc = "read"
    /\ scratch_files' = SafeRemove(scratch_files, rx_path)
    /\ rx_result' = ReceiveRaised("OSError")
    /\ rx_pc' = "idle"
    /\ UNCHANGED <<rx_path, rx_cmd, scratch_text, rx_proc, rx_raw, rx_calls, notRxVars>>

(* Lines 50-59: the file is removed, then the return code and the text decide. *)
RemoveAndReturn ==
    /\ rx_pc = "remove"
    /\ scratch_files' = SafeRemove(scratch_files, rx_path)
    /\ rx_result' = IF rx_proc[1].returncode # 0 THEN ReceiveRaised("ValueError")
                    ELSE IF rx_raw = <<>> THEN ReceiveRaised("TimeoutError")
                    ELSE Some([kind |-> "ok", raw |-> rx_raw, stdout |-> rx_proc[1].stdout,
                               stderr |-> rx_proc[1].stderr])
    /\ rx_pc' = "idle"
    /\ UNCHANGED <<rx_path, rx_cmd, scratch_text, rx_proc, rx_raw, rx_calls, notRxVars>>

EngineNext ==
    \/ \E timeout_ms \in TimeoutInputs : ReceiveRefused(timeout_ms)
    \/ \E timeout_ms \in TimeoutInputs, wideband \in WidebandInputs :
            ReceiveCreate(timeout_ms, wideband)
    \/ \E text \in ScratchTexts : RunTimeout(text)
    \/ RunRaises
    \/ \E returncode \in ReturnCodes, text \in ScratchTexts, stdout, stderr \in ProcessTexts :
            RunReturns(returncode, text, stdout, stderr)
    \/ ReadText
    \/ ReadRaises
    \/ RemoveAndReturn

-----------------------------------------------------------------------------
(* Specifications: one per subsystem, each from the state after construction *)

(* The state after construction of the parts a specification leaves alone. *)
ServicesInit == CommandInit /\ SendIrInit /\ SignalsInit /\ LearnCaptureInit

FanOutInit == LogHubInit /\ StatusInit /\ UnpairStepInit /\ StoreInit /\ SettingsInit /\ RegistryCallsInit
              /\ EngineInit

PureInit == ParserInit /\ AggregatorInit

LaterInit == ServicesInit /\ PureInit /\ SenderInit /\ FanOutInit

(* The learning service and the command client run beside a hub built with its release version. *)
InitAll ==
    LearnInit /\ RpcInit /\ HubInit /\ sw_version = <<"1", ".", "4">> /\ RegistryInit /\ FreshDatabase
    /\ AgentInit /\ agent_version = <<"1", ".", "0">> /\ LaterInit

SpecLearn == InitAll /\ [][LearnNext]_vars

SpecRpc == InitAll /\ [][RpcNext]_vars

(* The hub runs with either version string. *)
InitHub ==
    LearnInit /\ RpcInit /\ HubInit /\ RegistryInit /\ FreshDatabase
    /\ AgentInit /\ agent_version = <<"1", ".", "0">> /\ LaterInit

SpecHub == InitHub /\ [][HubNext]_vars

(* Deleting agents starts from the database an earlier run left behind. *)
InitUnpair ==
    LearnInit /\ RpcInit /\ HubInit /\ sw_version = <<"1", ".", "4">> /\ RegistryInit /\ PersistedDatabase
    /\ AgentInit /\ agent_version = <<"1", ".", "0">> /\ LaterInit

(* The agent process runs with either version string. *)
InitAgent ==
    LearnInit /\ RpcInit /\ HubInit /\ sw_version = <<"1", ".", "4">> /\ RegistryInit /\ FreshDatabase
    /\ AgentInit /\ LaterInit

SpecAgent == InitAgent /\ [][AgentNext]_vars

SpecUnpair == InitUnpair /\ [][UnpairNext]_vars

(* The agent process with its command handler. *)
InitCommand ==
    LearnInit /\ RpcInit /\ HubInit /\ sw_version = <<"1", ".", "4">> /\ RegistryInit /\ FreshDatabase
    /\ AgentInit /\ agent_version = <<"1", ".", "0">> /\ LaterInit

SpecCommand == InitCommand /\ [][CommandNext]_vars

(* The hub's send endpoint beside its learning service. *)
SpecSendIr == InitAll /\ [][SendIrNext]_vars

(* The signals table under calls taken one at a time. *)
SpecSignals == InitAll /\ [][SignalsNext]_vars

(* The parser with one capture of the learning loop in hand. *)
InitParser ==
    LearnInit /\ RpcInit /\ HubInit /\ sw_version = <<"1", ".", "4">> /\ RegistryInit /\ FreshDatabase
    /\ AgentInit /\ agent_version = <<"1", ".", "0">> /\ ServicesInit /\ CaptureInit /\ AggregatorInit /\ SenderInit /\ FanOutInit

SpecParser == InitParser /\ [][ParserNext]_vars

(* The aggregator with the takes of one capture in hand. *)
InitAggregator ==
    LearnInit /\ RpcInit /\ HubInit /\ sw_version = <<"1", ".", "4">> /\ RegistryInit /\ FreshDatabase
    /\ AgentInit /\ agent_version = <<"1", ".", "0">> /\ ServicesInit /\ ParserInit /\ TakesInit /\ SenderInit /\ FanOutInit

SpecAggregator == InitAggregator /\ [][AggregatorNext]_vars

(* The sender with the signals row of one button. *)
InitSender ==
    LearnInit /\ RpcInit /\ HubInit /\ sw_version = <<"1", ".", "4">> /\ RegistryInit /\ FreshDatabase
    /\ AgentInit /\ agent_version = <<"1", ".", "0">> /\ ServicesInit /\ PureInit /\ StoredInit /\ FanOutInit

SpecSender == InitSender /\ [][SenderNext]_vars

(* Press captures of two request threads beside start() and stop(). *)
SpecCapture == InitAll /\ [][CaptureNext]_vars

(* One press or hold capture over a remote that earlier captures filled. *)
InitCaptureCall ==
    LearnInit /\ RpcInit /\ HubInit /\ sw_version = <<"1", ".", "4">> /\ RegistryInit /\ FreshDatabase
    /\ AgentInit /\ agent_version = <<"1", ".", "0">> /\ CommandInit /\ SendIrInit /\ SignalsInit
    /\ CatalogInit /\ PureInit /\ SenderInit /\ FanOutInit

SpecCaptureCall == InitCaptureCall /\ [][CaptureCallNext]_vars

(* Sessions and press captures requested one after the other. *)
SpecSession == InitAll /\ [][SessionNext]_vars

(* The log events of the agents arriving at the hub, and the snapshots read from it. *)
SpecLogHub == InitAll /\ [][LogHubNext]_vars

(* The agent with its unpair handler taken step by step. *)
SpecAgentUnpair == InitAgent /\ [][AgentUnpairNext]_vars

SpecStore == InitAll /\ [][StoreNext]_vars

SpecSettings == InitAll /\ [][SettingsNext]_vars

SpecRegistry == InitAll /\ [][RegistryNext]_vars

SpecEngine == InitAll /\ [][EngineNext]_vars

(* Request threads writing the log of one session, and the loop sending to the websockets. *)
SpecStatus == InitAll /\ [][StatusNext]_vars

(* The hub's pairing beside its registry, from the database of an earlier run. *)
SpecPairedHub == InitUnpair /\ [][PairedHubNext]_vars

-----------------------------------------------------------------------------
(* C1: between two consecutive stop() calls at most one start() returns    *)
(* success, and an active session is never replaced by another start().    *)
C1_SessionExclusive == startedCount <= 1

(* The request id and the agent id a response topic names. *)
TopicAgent(topic) == ParseResponseTopic(topic)[1]
TopicRequest(topic) == ParseResponseTopic(topic)[2]

(* C2: a waiter for request R sent to agent A is completed only by a       *)
(* response on ir/hubs/{hub}/agents/A/resp/R whose payload request_id is   *)
(* absent or R; no other response changes any waiter, and every ok result  *)
(* a caller gets is the one sent on the topic of its own request and agent.*)
C2_ResponseCorrelation ==
    /\ [](\A r \in PendingIds :
            (pending[r][1].completed /\ pending[r][1].ok) =>
                pending[r][1].result = Some(ResponseTopic(OwnHubId, pending[r][1].agent_id, r)))
    /\ [][\A r \in RequestIds :
            (reqPc'[r] = "done" /\ outcome'[r].kind = "ok" /\ reqPc[r] # "done") =>
                outcome'[r].result = Some(ResponseTopic(OwnHubId, reqLocal[r].agent_id, r))]_vars
    /\ [](\A topic \in ResponseTopics : \A payload \in ResponsePayloads(topic) :
            (TopicMatches(subscribed_topic, topic) /\ ResponseAccepted(topic, payload)) =>
                /\ pending[TopicRequest(topic)] # None
                /\ topic = ResponseTopic(OwnHubId, pending[TopicRequest(topic)][1].agent_id, TopicRequest(topic))
                /\ payload[1].request_id \in {"", TopicRequest(topic)})
    /\ [][(subscribed_topic # <<>> /\ UNCHANGED <<reqPc, rpcRunning, subscribed_topic>>) =>
            \A q \in RequestIds : pending'[q] # pending[q] =>
                /\ pending[q] # None /\ pending'[q] # None
                /\ pending'[q][1].agent_id = pending[q][1].agent_id
                /\ \A p \in RequestIds \ {q} : pending'[p] = pending[p] /\ event'[p] = event[p]]_vars

(* C2 witness: a caller got an ok result while a waiter registered for     *)
(* another agent is still waiting, not completed.                          *)
C2_Witness ==
    \E r, q \in RequestIds :
        /\ outcome[r].kind = "ok"
        /\ pending[q] # None /\ ~pending[q][1].completed
        /\ outcome[r].result # Some(ResponseTopic(OwnHubId, pending[q][1].agent_id, r))

(* C3: a call whose waiter was not completed when its wait ended raises    *)
(* agent_timeout (504) and leaves no waiter behind; a wait that ends       *)
(* without the event lasted at least the 0.5 s floor; a response for a     *)
(* request that has ended changes nothing.                                 *)
C3_TimeoutDropsLateResponse ==
    /\ [](\A r \in RequestIds : reqPc[r] = "done" => pending[r] = None)
    /\ [][\A r \in RequestIds :
            (reqPc[r] = "waiting" /\ reqPc'[r] = "done"
                /\ (pending[r] = None \/ ~pending[r][1].completed)) =>
                /\ outcome'[r] = RoutingError("agent_timeout", 504)
                /\ pending'[r] = None
                /\ (~event[r] => reqLocal[r].waited >= FloorMs)]_vars
    /\ [](\A topic \in ResponseTopics : \A payload \in ResponsePayloads(topic) :
            (TopicRequest(topic) # "" /\ reqPc[TopicRequest(topic)] = "done") =>
                ~ResponseAccepted(topic, payload))
    /\ [][\A r \in RequestIds : (reqPc[r] = "done" /\ reqPc'[r] = "done") =>
            (pending'[r] = None /\ outcome'[r] = outcome[r] /\ event'[r] = event[r])]_vars

(* C3 witness: a call has timed out, the client is still subscribed so a   *)
(* late response can be delivered, and another waiter is pending.          *)
C3_Witness ==
    \E r, q \in RequestIds :
        /\ outcome[r].code = "agent_timeout"
        /\ rpcRunning /\ subscribed_topic # <<>>
        /\ pending[q] # None /\ ~pending[q][1].completed

(* C4: stop() empties the pending map and sets the event of every waiter   *)
(* it took out; a call released that way is not blocked (its wait can      *)
(* return) and ends with agent_timeout (504).                              *)
C4_StopReleasesWaiters ==
    /\ [](\A r \in released :
            pending[r] = None /\ reqPc[r] = "waiting" /\ event[r] /\ ENABLED RequestFinish(r))
    /\ [][\A r \in released :
            reqPc'[r] = "done" => outcome'[r] = RoutingError("agent_timeout", 504)]_vars
    /\ [][(rpcRunning' = FALSE /\ subscribed_topic' = <<>> /\ UNCHANGED <<reqPc, reqLocal, outcome>>) =>
            /\ \A r \in RequestIds : pending'[r] = None
            /\ \A r \in PendingIds : reqPc[r] = "waiting" => r \in released']_vars

(* C4 witness: one stop() has released two calls, one whose waiter had a   *)
(* response and one that had not reached its own timeout.                  *)
C4_Witness ==
    \E r, q \in released :
        /\ r # q
        /\ reqLocal[q].waited < reqLocal[q].timeout
        /\ ~rpcRunning

(* C5: _on_offer accepts an offer only when a window is open and           *)
(* unexpired, the topic session is the active session, the payload nonce   *)
(* is the active nonce, a given payload agent_uid is the topic's uid and   *)
(* the major versions are compatible (an empty one on either side counts); *)
(* the record it writes is pending=true with the session that was active   *)
(* when the offer was validated, and no step of the handler writes an      *)
(* accepted record.                                                        *)
C5_OfferValidated ==
    /\ [](\A topic \in OfferTopics : \A payload \in OfferPayloads :
            OfferAccepted(topic, payload) =>
                /\ hub_session_id # "" /\ clock < hub_expires_at
                /\ Len(topic) = 5 /\ topic[4] = hub_session_id
                /\ payload # None
                /\ payload[1].nonce = hub_nonce
                /\ payload[1].agent_uid \in {"", topic[5]}
                /\ \/ MajorVersion(sw_version) = <<>>
                   \/ MajorVersion(payload[1].sw_version) = <<>>
                   \/ MajorVersion(sw_version) = MajorVersion(payload[1].sw_version))
    /\ [][(hubPc["mqtt"] = "idle" /\ hubPc'["mqtt"] = "upsert") =>
            /\ hub_session_id # "" /\ clock < hub_expires_at
            /\ hubLocal'["mqtt"].session_id = hub_session_id
            /\ agents' = agents]_vars
    /\ [][hubPc'["mqtt"] # hubPc["mqtt"] =>
            \A a \in AgentIds : agents'[a] # agents[a] =>
                /\ hubPc["mqtt"] = "upsert"
                /\ a = hubLocal["mqtt"].agent_id
                /\ agents'[a] = Some(AgentRow(TRUE, hubLocal["mqtt"].session_id))]_vars

(* C5 witness: an offer has been written as a pending record of the active *)
(* session by a hub that has a version of its own.                         *)
C5_Witness ==
    \E a \in AgentIds :
        /\ agents[a] # None /\ agents[a][1].pending
        /\ agents[a][1].pairing_session_id = hub_session_id
        /\ sw_version # <<>>
        /\ hubPc["mqtt"] = "idle"

(* C6: accept_offer(a) goes on to publish only for a window that is open   *)
(* and unexpired and a record of a that is pending for the active session; *)
(* when it succeeds the accept message with that session and nonce was     *)
(* published on ir/pairing/accept/{session}/{a} and the record of a has    *)
(* pending=false and no session; when it fails with pairing_closed,        *)
(* unknown pending agent or offer_session_mismatch the condition named     *)
(* holds and neither the record nor anything published changes.            *)
C6_AcceptOffer ==
    /\ [][(hubPc["api"] = "idle" /\ hubPc'["api"] = "accept_lookup") =>
            /\ hub_session_id # "" /\ clock < hub_expires_at
            /\ hubLocal'["api"].session_id = hub_session_id
            /\ hubLocal'["api"].nonce = hub_nonce]_vars
    /\ [][(hubPc["api"] = "accept_lookup" /\ hubPc'["api"] = "accept_commit") =>
            LET a == hubLocal["api"].agent_id IN
            /\ agents[a] # None /\ agents[a][1].pending
            /\ agents[a][1].pairing_session_id = hubLocal["api"].session_id
            /\ accept_published' = Some([topic |-> <<"ir", "pairing", "accept", hubLocal["api"].session_id, a>>,
                                         payload |-> [session_id |-> hubLocal["api"].session_id,
                                                      nonce |-> hubLocal["api"].nonce,
                                                      agent_uid |-> a]])
            /\ agents' = agents]_vars
    /\ [][(hubPc["api"] = "accept_commit" /\ hubResult'.code = "ok") =>
            LET a == hubLocal["api"].agent_id IN
            /\ hubResult'.agent_id = a
            /\ accept_published' = accept_published /\ accept_published # None
            /\ accept_published[1].topic = <<"ir", "pairing", "accept", hubLocal["api"].session_id, a>>
            /\ agents'[a] # None
            /\ ~agents'[a][1].pending /\ agents'[a][1].pairing_session_id = ""]_vars
    /\ [][(hubResult' # hubResult
            /\ hubResult'.code \in {"pairing_closed", "unknown_pending_agent", "offer_session_mismatch"}) =>
            LET a == hubResult'.agent_id IN
            /\ agents' = agents
            /\ accept_published' = None
            /\ hubResult'.code = "pairing_closed" =>
                    (hubPc["api"] = "idle" /\ (hub_session_id = "" \/ clock >= hub_expires_at))
            /\ hubResult'.code = "unknown_pending_agent" =>
                    (hubPc["api"] = "accept_lookup" /\ (agents[a] = None \/ ~agents[a][1].pending))
            /\ hubResult'.code = "offer_session_mismatch" =>
                    /\ hubPc["api"] = "accept_lookup"
                    /\ agents[a] # None /\ agents[a][1].pending
                    /\ agents[a][1].pairing_session_id # hubLocal["api"].session_id]_vars

(* C6 witness: accept_offer has succeeded for an agent whose record is now *)
(* accepted, with the accept message published for the open session.       *)
C6_Witness ==
    /\ hubResult.code = "ok"
    /\ accept_published # None
    /\ accept_published[1].payload.session_id = hub_session_id
    /\ agents[hubResult.agent_id] # None
    /\ ~agents[hubResult.agent_id][1].pending

(* C7: once the deletion of agent a has completed, the record of a is gone *)
(* and no remote has assigned_agent_id = a, in every later state, also     *)
(* when a send request resolves its agent while the deletion runs.         *)
C7_DeletedAgentUnreferenced ==
    \A a \in deleted : agents[a] = None /\ \A r \in RemoteIds : assigned[r] # a

(* C8: an unpair ack counts only on the topic of the agent the command was *)
(* sent to and with the command_id of a waiting command; for an accepted   *)
(* agent the delete thread clears assignments and deletes the record only  *)
(* after its command was acked, and when the 8 s pass without an ack it    *)
(* fails with unpair_ack_timeout having written nothing; for a pending     *)
(* agent it publishes no command and goes straight to the deletion.        *)
C8_UnpairNeedsAck ==
    /\ [](\A topic \in AckTopics : \A payload \in AckPayloads :
            AckAccepted(topic, payload) =>
                /\ payload # None /\ payload[1].command_id \in CommandIds
                /\ pending_unpair_acks[payload[1].command_id] # None
                /\ topic = <<"ir", "pairing", "unpair_ack",
                             pending_unpair_acks[payload[1].command_id][1].agent_id>>)
    /\ [][\A c \in CommandIds : pending_unpair_acks'[c] # pending_unpair_acks[c] =>
            \A d \in CommandIds \ {c} : pending_unpair_acks'[d] = pending_unpair_acks[d]]_vars
    /\ [][(delPc = "idle" /\ delPc' = "wait") =>
            /\ agents[delLocal'.agent_id] # None /\ ~agents[delLocal'.agent_id][1].pending
            /\ unpair_published' = Some([topic |-> <<"ir", "pairing", "unpair", delLocal'.agent_id>>,
                                         command_id |-> delLocal'.command_id])
            /\ pending_unpair_acks[delLocal'.command_id] = None
            /\ pending_unpair_acks'[delLocal'.command_id] =
                    Some([agent_id |-> delLocal'.agent_id, acked |-> FALSE])]_vars
    /\ [][(delPc = "wait" /\ delPc' = "clear") =>
            /\ pending_unpair_acks[delLocal.command_id] # None
            /\ pending_unpair_acks[delLocal.command_id][1].acked
            /\ pending_unpair_acks[delLocal.command_id][1].agent_id = delLocal.agent_id]_vars
    /\ [][(delPc = "wait" /\ delPc' = "idle") =>
            /\ delResult'.code = "unpair_ack_timeout"
            /\ delLocal.waited >= UnpairAckTimeoutSeconds
            /\ ~pending_unpair_acks[delLocal.command_id][1].acked
            /\ agents' = agents /\ assigned' = assigned /\ live_agents' = live_agents]_vars
    /\ [][(delPc' # delPc /\ (agents' # agents \/ assigned' # assigned)) =>
            /\ delPc \in {"clear", "delete", "unregister"}
            /\ delLocal.was_pending \/ delLocal.command_id # ""]_vars
    /\ [][(delPc = "idle" /\ delPc' = "clear") =>
            /\ agents[delLocal'.agent_id] # None /\ agents[delLocal'.agent_id][1].pending
            /\ delLocal'.was_pending /\ delLocal'.command_id = ""
            /\ unpair_published' = unpair_published
            /\ pending_unpair_acks' = pending_unpair_acks]_vars
    /\ [](delPc \in {"clear", "delete", "unregister"} =>
            (delLocal.was_pending <=> delLocal.command_id = ""))

(* C8 witness: the deletion of an accepted agent has completed after its   *)
(* unpair command was acked.                                               *)
C8_Witness ==
    /\ delResult.code = "ok"
    /\ ~delResult.was_pending /\ delResult.unpair_acked
    /\ unpair_published # None
    /\ unpair_published[1].topic = <<"ir", "pairing", "unpair", delResult.agent_id>>
    /\ agents[delResult.agent_id] = None

(* C9: a (session, nonce) pair is one-shot: once it has bound the agent, no *)
(* later sequence of open, accept and unpair messages lets the same pair   *)
(* bind the agent a second time.                                           *)
C9_PairBindsOnce == rebound_pairs = {}

(* C10: the agent takes up an open message, remembering its pair and       *)
(* publishing an offer for it, only if it is unbound, the message carries  *)
(* a session_id and a nonce, expires_at is in the future and the major     *)
(* versions are compatible; a stale open causes no offer and leaves the    *)
(* remembered pair as it was; a bound agent publishes no offer.            *)
C10_OfferOnlyForLiveOpen ==
    /\ [](\A payload \in OpenPayloads :
            OpenAccepted(payload) =>
                /\ pairing_hub_id = ""
                /\ payload # None
                /\ payload[1].session_id # "" /\ payload[1].nonce # ""
                /\ payload[1].expires_at > agent_now
                /\ \/ MajorVersion(payload[1].sw_version) = <<>>
                   \/ MajorVersion(agent_version) = <<>>
                   \/ MajorVersion(payload[1].sw_version) = MajorVersion(agent_version))
    /\ [][(offer_published' # offer_published \/ (active_session_id' # "" /\
            <<active_session_id, active_nonce, active_expires_at>>' #
                <<active_session_id, active_nonce, active_expires_at>>)) =>
            /\ pairing_hub_id = "" /\ pairing_hub_id' = ""
            /\ active_expires_at' > agent_now
            /\ active_session_id' # "" /\ active_nonce' # ""
            /\ offer_published' # None
            /\ offer_published'[1].topic = <<"ir", "pairing", "offer", active_session_id', AgentUid>>
            /\ offer_published'[1].payload.session_id = active_session_id'
            /\ offer_published'[1].payload.nonce = active_nonce'
            /\ \E v \in OpenVersions :
                    LET payload == Some([session_id |-> active_session_id', nonce |-> active_nonce',
                                         expires_at |-> active_expires_at', sw_version |-> v])
                    IN  payload \in OpenPayloads /\ OpenAccepted(payload)]_vars
    /\ [][pairing_hub_id # "" => offer_published' = offer_published]_vars

(* C10 witness: after time has passed, so that some open messages are      *)
(* stale, the unbound agent has published an offer for the pair it         *)
(* remembers.                                                              *)
C10_Witness ==
    /\ agent_now > 0
    /\ \E payload \in OpenPayloads : payload # None /\ payload[1].expires_at > 0
                                     /\ payload[1].expires_at <= agent_now
    /\ pairing_hub_id = ""
    /\ offer_published # None
    /\ offer_published[1].payload.session_id = active_session_id
    /\ active_expires_at > agent_now

-----------------------------------------------------------------------------
(* C11: the command handler runs an operation and publishes a response only *)
(* for a request that carries a request_id and a hub_id equal to the hub    *)
(* the agent is bound to at that moment; a request from another hub, or one *)
(* received while the agent is unbound, runs nothing and publishes nothing. *)
C11_CommandOnlyFromBoundHub ==
    /\ [](\A topic \in CommandTopics : \A payload \in CommandPayloads :
            CommandAccepted(topic, payload) =>
                /\ payload # None
                /\ payload[1].request_id # ""
                /\ pairing_hub_id # ""
                /\ payload[1].hub_id = pairing_hub_id)
    /\ [][(cmd_request' # cmd_request \/ cmd_executed' # cmd_executed \/ cmd_published' # cmd_published) =>
            /\ cmd_request' # None
            /\ IF /\ cmd_request'[1].payload # None
                  /\ cmd_request'[1].payload[1].request_id # ""
                  /\ pairing_hub_id # ""
                  /\ cmd_request'[1].payload[1].hub_id = pairing_hub_id
               THEN TRUE
               ELSE cmd_executed' = <<>> /\ cmd_published' = <<>>]_vars

C11_Witness ==
    /\ cmd_request # None
    /\ CommandAcceptedAnyHub(cmd_request[1].topic, cmd_request[1].payload)
    /\ cmd_request[1].payload[1].hub_id = "hub1"
    /\ cmd_executed = <<>> /\ cmd_published = <<>>
    /\ pairing_hub_id = ""
    /\ ack_published # None

C14_NoSendWhileLearning ==
    engine_send.invoked => ~engine_send.is_learning /\ ~engine_send.learning_active

(* C15: in every reachable state of the hub an agent whose record is        *)
(* pending has a pairing_session_id and is not routable: it is not in the   *)
(* registry's map of live agents.                                           *)
C15_PendingNotRoutable ==
    \A a \in AgentIds :
        (agents[a] # None /\ agents[a][1].pending) =>
            /\ agents[a][1].pairing_session_id # ""
            /\ a \notin live_agents

C17_NormalizationFixpoint ==
    reparse_result # None =>
        reparse_result[1] = ParseResult("", parse_result[1].pulses, None)

C18_WellFormed(pulses) ==
    /\ pulses # <<>>
    /\ \A k \in 1..Len(pulses) : pulses[k] # 0
    /\ \A k \in 1..(Len(pulses) - 1) : (pulses[k] > 0) # (pulses[k + 1] > 0)
    /\ pulses[1] > 0
    /\ pulses[Len(pulses)] > 0

C18_NonZero(tokens) == SelectSeq(tokens, LAMBDA v : v # 0)

(* C18: every sequence parse_and_normalize returns is non-empty, has no zero, *)
(* alternates strictly in sign and starts and ends with a pulse; a capture    *)
(* with no tokens, one whose first non-zero token is a space and one that is  *)
(* empty after normalization raise an error and return no sequence.           *)
C18_NormalizedShape ==
    parse_result # None =>
        LET result == parse_result[1]
            tokens == ParseTokens(raw_capture)
            nonzero == C18_NonZero(tokens)
        IN /\ result.error = "" => C18_WellFormed(result.pulses)
           /\ result.error # "" => result.pulses = <<>>
           /\ tokens = <<>> => result.error = "No tokens parsed from raw capture"
           /\ (nonzero # <<>> /\ nonzero[1] < 0)
                  => result.error = "Signal starts with a space; cannot normalize"
           /\ (tokens # <<>> /\ nonzero = <<>>) => result.error = "Normalized signal is empty"
           /\ (nonzero # <<>> /\ nonzero[1] > 0) => result.error = ""

(* A capture with a trailing gap and two pulses in a row was normalized. *)
C18_Witness ==
    /\ parse_result # None
    /\ parse_result[1].error = ""
    /\ parse_result[1].tail_gap_us # None
    /\ Len(parse_result[1].pulses) < Len(ParseTokens(raw_capture)) - 1


(* The clusters the frames in hand form: the indices of the non-empty frames *)
(* of one length and sign pattern.                                           *)
C19_Keys == {ClusterKey(frames[i]) : i \in {n \in 1..Len(frames) : frames[n] # <<>>}}
C19_Cluster(key) == {i \in 0..(Len(frames) - 1) : ClusterKey(frames[i + 1]) = key}
C19_First(indices) == CHOOSE i \in indices : \A other \in indices : i <= other
C19_ValidInputs ==
    /\ round_to_us >= 1
    /\ min_match_ratio[1] > 0
    /\ min_match_ratio[1] <= min_match_ratio[2]
C19_Majority(key) ==
    /\ aggregate_result[1].error = ""
    /\ {aggregate_result[1].best_indices[n] :
            n \in 1..Len(aggregate_result[1].best_indices)} \subseteq C19_Cluster(key)
    /\ Len(aggregate_result[1].aggregated) = key[1]

(* C19 as stated: whenever the frames hold a cluster C of m frames of one    *)
(* length and sign pattern with m >= ceil(|frames| * min_match_ratio),       *)
(* aggregate succeeds, its dominant indices are a subset of C and the        *)
(* aggregated frame has the length of the frames of C.                       *)
C19_AggregationMajority ==
    (aggregate_result # None /\ C19_ValidInputs) =>
        \A key \in C19_Keys :
            Cardinality(C19_Cluster(key)) >= CeilOfProduct(Len(frames), min_match_ratio)
                => C19_Majority(key)

(* C19 amended: the same for a cluster C that no other cluster exceeds in    *)
(* size and that starts before every other cluster of its own size.          *)
C19_DominantMajority ==
    (aggregate_result # None /\ C19_ValidInputs) =>
        \A key \in C19_Keys :
            LET C == C19_Cluster(key)
            IN (/\ Cardinality(C) >= CeilOfProduct(Len(frames), min_match_ratio)
                /\ \A other \in C19_Keys \ {key} :
                       \/ Cardinality(C19_Cluster(other)) < Cardinality(C)
                       \/ /\ Cardinality(C19_Cluster(other)) = Cardinality(C)
                          /\ C19_First(C) < C19_First(C19_Cluster(other)))
               => C19_Majority(key)

(* Three takes, two clusters, and the larger one was aggregated. *)
C19_Witness ==
    /\ aggregate_result # None
    /\ aggregate_result[1].error = ""
    /\ Cardinality(C19_Keys) = 2
    /\ Len(aggregate_result[1].best_indices) = 2
    /\ Len(aggregate_result[1].aggregated) = 2

(* C20: after a successful aggregate with round_to_us in 1..1000 every       *)
(* element of the aggregated frame has a magnitude of at least 1 that is a   *)
(* multiple of round_to_us, and the sign its position has in the dominant    *)
(* cluster.                                                                  *)
C20_RoundedToStep ==
    (aggregate_result # None /\ aggregate_result[1].error = "" /\ round_to_us \in 1..1000) =>
        LET result == aggregate_result[1]
            member == frames[result.best_indices[1] + 1]
        IN \A i \in 1..Len(result.aggregated) :
               /\ Abs(result.aggregated[i]) >= 1
               /\ Abs(result.aggregated[i]) % round_to_us = 0
               /\ (result.aggregated[i] > 0) = (member[i] > 0)


(* C21: for a stored hold_initial, hold_repeat and hold_gap_us > 0 the number *)
(* of repeat files of a hold send is at least 1, equals                       *)
(* max(1, ceil((hold_ms*1000 - sum|hold_initial|) / (sum|hold_repeat| +       *)
(* hold_gap_us))), and does not decrease from one send to a send with a       *)
(* larger hold_ms.                                                            *)
C21_Repeats(result) == Len(result.files) - 1
C21_HoldSent(result) == result # None /\ result[1].error = "" /\ result[1].mode = "hold"
C21_RepeatEstimate ==
    /\ [](C21_HoldSent(send_result) =>
            LET repeats == C21_Repeats(send_result[1])
                period == SumAbs(DecodePulses(stored_signals[1].hold_repeat))
                              + stored_signals[1].hold_gap_us[1]
                remaining == send_result[1].hold_ms * 1000
                                 - SumAbs(DecodePulses(stored_signals[1].hold_initial))
            IN /\ stored_signals[1].hold_gap_us[1] > 0
               /\ repeats >= 1
               /\ remaining <= repeats * period
               /\ repeats > 1 => (repeats - 1) * period < remaining)
    /\ [][(C21_HoldSent(send_result) /\ C21_HoldSent(send_result')
             /\ send_result'[1].hold_ms >= send_result[1].hold_ms)
            => C21_Repeats(send_result'[1]) >= C21_Repeats(send_result[1])]_vars

(* A hold long enough for three repeats was sent. *)
C21_Witness == C21_HoldSent(send_result) /\ C21_Repeats(send_result[1]) = 3


(* C22: every persisted hold_gap_us is greater than 0, and a hold capture    *)
(* from which no positive gap can be inferred, neither from the tail gaps    *)
(* nor from the frame end timestamps, fails without calling update_hold.     *)
C22_PersistedGaps ==
    \A b \in ButtonRowIds :
        (signal_rows[b] # None /\ signal_rows[b][1].hold_gap_us # None)
            => signal_rows[b][1].hold_gap_us[1] > 0
C22_NoGap(local) ==
    /\ \A k \in 1..Len(local.tail_gaps) :
           local.tail_gaps[k] = None \/ local.tail_gaps[k][1] <= 0
    /\ \A idx \in 2..Len(local.frames) :
           (local.frame_end_times[idx] - local.frame_end_times[idx - 1])
               - SumAbs(local.frames[idx]) <= 0
C22_HoldGapPositive ==
    /\ []C22_PersistedGaps
    /\ [][\A t \in CaptureThreads :
            (capPc[t] = "hold_receive" /\ capPc'[t] = "idle" /\ C22_NoGap(capLocal[t]))
                => (capResult'[t].error # "ok" /\ signal_rows' = signal_rows)]_vars

(* A hold capture stored the gap it took from three tail gaps. *)
C22_Witness ==
    /\ capResult["c1"].error = "ok"
    /\ capResult["c1"].hold_gap_us = Some(45000)
    /\ signal_rows[capResult["c1"].button_id][1].hold_gap_us = Some(45000)
    /\ signal_rows[capResult["c1"].button_id][1].sample_count_hold = 4


(* C23: after any sequence of log events AgentLogHub holds for each agent at *)
(* most 100 events, the most recently appended ones in append order, and     *)
(* snapshot(agent_id, limit) returns the most recent min(limit, 100) of      *)
(* them.                                                                     *)
C23_Ring ==
    \A a \in LogAgents :
        /\ Len(log_events[a]) <= 100
        /\ Len(log_events[a]) = IF log_appended[a] < 100 THEN log_appended[a] ELSE 100
        /\ \A k \in 1..Len(log_events[a]) :
               log_events[a][k] = log_appended[a] - Len(log_events[a]) + k
C23_MostRecent(result, count) ==
    LET history == log_events[result.agent_id]
        returned == IF count < Len(history) THEN count ELSE Len(history)
    IN /\ Len(result.items) = returned
       /\ \A k \in 1..returned : result.items[k] = history[Len(history) - returned + k]
C23_SnapshotMin ==
    /\ C23_Ring
    /\ snapshot_result # None =>
           C23_MostRecent(snapshot_result[1],
                          IF snapshot_result[1].limit < 100 THEN snapshot_result[1].limit ELSE 100)

(* C23 as the code has it: snapshot returns the most recent                  *)
(* max(1, min(limit, 100)) of the events it holds.                           *)
C23_SnapshotClamped ==
    /\ C23_Ring
    /\ snapshot_result # None =>
           C23_MostRecent(snapshot_result[1],
                          Max(1, IF snapshot_result[1].limit < 100 THEN snapshot_result[1].limit
                                 ELSE 100))

(* A snapshot of 100 events was taken after the oldest two had been evicted. *)
C23_Witness ==
    /\ snapshot_result # None
    /\ snapshot_result[1].limit = 101
    /\ log_appended[snapshot_result[1].agent_id] = 102
    /\ Len(snapshot_result[1].items) = 100
    /\ snapshot_result[1].items[1] = 3


(* C24: at most one pairing window is active on the hub: open_pairing        *)
(* replaces the previous session and its close timer; the timer armed for    *)
(* session S closes the window only if S is still the active session and     *)
(* never closes a newer session opened in the meantime; close_pairing        *)
(* cancels the timer and leaves no session active.                           *)
C24_SingleWindow ==
    /\ [][(hubPc["api"] = "open_install" /\ hubPc'["api"] = "open_purge") =>
            /\ hub_session_id' = hubLocal["api"].session_id
            /\ close_timer' # None
            /\ close_timer'[1].session_id = hub_session_id'
            /\ ~close_timer'[1].fired]_vars
    /\ [][(hubPc["timer"] = "close" /\ hubPc'["timer"] = "close_purge") =>
            hub_session_id \in {"", hubLocal["timer"].session_id}]_vars
    /\ [][(\E t \in {"api", "timer"} : hubPc[t] # "close_purge" /\ hubPc'[t] = "close_purge") =>
            (hub_session_id' = "" /\ close_timer' = None)]_vars


(* C25: within one learning session every subscriber receives the status     *)
(* events in the order in which the log entries were appended: the payload   *)
(* broadcast for a later append is never delivered to a subscriber before    *)
(* the payload of an earlier append.                                         *)
C25_AppendOrder ==
    \A w \in StatusSockets :
        \A i \in 1..Len(ws_received[w]) : \A j \in 1..Len(ws_received[w]) :
            i < j => ws_received[w][i].entry < ws_received[w][j].entry


(* C26: capture(mode=press, overwrite=false) never replaces the stored press *)
(* signal of a button that already has signals: it fails with 'Press signal  *)
(* already exists' before any IR receive, for every interleaving of capture  *)
(* calls within a session.                                                   *)
C26_NoReplaceWithoutOverwrite ==
    [][\A t \in CaptureThreads :
          (capPc[t] = "press_upsert" /\ capPc'[t] = "idle" /\ ~capLocal[t].overwrite) =>
              \A b \in ButtonRowIds : signal_rows[b] # None => signal_rows'[b] = signal_rows[b]]_vars


(* C29: signals and buttons are written only while the session that started  *)
(* the capture is the active one: after stop() has returned, a capture in    *)
(* progress creates no button and writes no signals, nor does it write into  *)
(* a remote whose buttons a later start(extend=false) has cleared.           *)
C29_WritesOnlyWhileActive ==
    [][\A t \in CaptureThreads :
          (capPc[t] \in {"press_create", "press_upsert", "hold_receive"} /\ capPc'[t] # capPc[t]
              /\ (button_rows' # button_rows \/ signal_rows' # signal_rows))
          => cur_session = capLocal[t].session]_vars


(* C27: a capture that fails persists nothing.  A press capture that fails   *)
(* in a take (receive timeout, parse error) or for want of matching takes    *)
(* creates no button and no signals row and leaves the session's             *)
(* next_button_index, last_button_id and last_button_name as they were; a    *)
(* hold capture that ends with fewer than two frames, with no repeat frame   *)
(* or with no gap does not call update_hold and leaves the signals as they   *)
(* were.                                                                     *)
C27_Persisted == <<button_rows, button_count, signal_rows, session_objects>>
C27_BeforeWrite ==
    {"press_check", "press_take", "press_create", "hold_check", "hold_first", "hold_receive"}
C27_FailedCapturePersistsNothing ==
    /\ [][\A t \in CaptureThreads :
            (capPc[t] # "idle" /\ capPc'[t] \in C27_BeforeWrite) => UNCHANGED C27_Persisted]_vars
    /\ [][\A t \in CaptureThreads :
            (capPc[t] \in {"press_take", "press_create", "hold_first", "hold_receive"}
                /\ capPc'[t] = "idle" /\ capResult'[t].error # "ok")
            => UNCHANGED C27_Persisted]_vars
    /\ [][\A t \in CaptureThreads :
            (capPc[t] \in {"press_check", "hold_check"} /\ capPc'[t] = "idle")
            => UNCHANGED C27_Persisted]_vars

(* A press capture failed for want of matching takes and there is no button. *)
C27_Witness ==
    /\ capResult["c1"].error = "Not enough matching takes"
    /\ button_count = 0
    /\ session_objects[1].next_button_index = 1


(* C28: on an unpair command addressed to its own uid the agent performs its *)
(* steps in this order: it clears the binding, publishes the ack on          *)
(* ir/pairing/unpair_ack/{uid}, clears the retained unpair command with an   *)
(* empty retained message, and only then resumes the pairing listeners.      *)
C28_Position(step) ==
    IF \E k \in 1..Len(agent_sent) : agent_sent[k] = step
    THEN CHOOSE k \in 1..Len(agent_sent) : agent_sent[k] = step
    ELSE 0
C28_Before(first, second) ==
    C28_Position(second) # 0 =>
        (C28_Position(first) # 0 /\ C28_Position(first) < C28_Position(second))
C28_AckOnOwnTopic ==
    [][(unpair_pc = "ack" /\ unpair_pc' = "clear_retained") =>
          /\ pairing_hub_id = ""
          /\ ack_published' = Some([topic |-> <<"ir", "pairing", "unpair_ack", AgentUid>>,
                                    command_id |-> unpair_local.command_id])]_vars
C28_ListenersLast ==
    /\ [](/\ C28_Before("clear_binding", "ack")
          /\ C28_Before("ack", "clear_retained")
          /\ C28_Before("clear_retained", "subscribe"))
    /\ C28_AckOnOwnTopic

(* C28 as the code has it: the binding is cleared, the pairing listeners are *)
(* resumed, the ack is published and only then the retained command is       *)
(* cleared.                                                                  *)
C28_ListenersBeforeAck ==
    /\ [](/\ C28_Before("clear_binding", "ack")
          /\ C28_Before("ack", "clear_retained")
          /\ C28_Before("clear_binding", "subscribe")
          /\ (C28_Position("subscribe") # 0 /\ C28_Position("ack") # 0)
                 => C28_Position("subscribe") < C28_Position("ack"))
    /\ C28_AckOnOwnTopic

(* A running agent has done all four steps for a command and is unbound and listening. *)
C28_Witness ==
    /\ agent_sent = <<"clear_binding", "subscribe", "ack", "clear_retained">>
    /\ pairing_hub_id = ""
    /\ listening
    /\ retained_unpair = None
    /\ bound_pairs # {}



(* C30: an accepted agent (pending = FALSE) is never turned back into a     *)
(* pending agent and never loses its record through offers, open_pairing,   *)
(* close_pairing or the expiry timer; the hub of SpecPairedHub runs only    *)
(* those operations (and accept), never unpair_and_delete_agent.            *)
C30_AcceptedStaysAccepted ==
    [][\A a \in AgentIds :
          (agents[a] # None /\ ~agents[a][1].pending)
              => (agents'[a] # None /\ ~agents'[a][1].pending)]_vars


(* The offer an agent publishes in answer to the retained open message: the  *)
(* session and nonce of that message, the agent's own id and a version the   *)
(* hub is compatible with.                                                    *)
C31_AnswerTo(open_message) ==
    [nonce |-> open_message.nonce, session_id |-> open_message.session_id,
     agent_uid |-> "a1", sw_version |-> <<"1", ".", "0">>]

(* The session of the retained open message has neither expired nor been closed. *)
C31_OpenMessageLive ==
    /\ hub_running
    /\ retained_open # None
    /\ clock < retained_open[1].expires_at
    /\ \A t \in {"api", "timer"} : hubPc[t] # "close_purge"

(* While the open message of a session is live, the hub takes the offer that answers it. *)
C31_OfferNotRejected ==
    C31_OpenMessageLive
        => OfferAccepted(OfferTopic(retained_open[1].session_id, "a1"),
                         Some(C31_AnswerTo(retained_open[1])))

(* The purge at the end of open_pairing leaves the pending agents of the session it opened. *)
C31_OfferNotPurged ==
    \A a \in AgentIds :
        (/\ hubPc["api"] = "open_purge" /\ hubPc'["api"] = "idle"
         /\ agents[a] # None /\ agents[a][1].pending
         /\ agents[a][1].pairing_session_id = hubLocal["api"].session_id)
            => agents'[a] = agents[a]

(* C31: an offer published in answer to the hub's open message for session  *)
(* S, with the nonce of S and before S expires or is closed, becomes a       *)
(* pending agent record of S: the hub does not reject it for not having      *)
(* recorded S yet, and the purge of open_pairing does not remove it.         *)
C31_OfferBecomesPending == []C31_OfferNotRejected /\ [][C31_OfferNotPurged]_vars


(* Once clear_binding() has returned, the agent is unbound until set_binding is called. *)
C32_ClearedStaysUnbound == binding_cleared => store_hub_id = ""

(* With no mutator in progress, the retained snapshot is the in-memory state. *)
C32_RetainedIsMemory ==
    (/\ store_running
     /\ \A t \in StoreThreads : storePc[t] = "idle"
     /\ retained_state # None)
        => retained_state[1] = StatePayload(store_hub_id, store_debug)

(* C32: after start(), the in-memory binding changes only through            *)
(* set_binding and clear_binding: once clear_binding() has returned,         *)
(* is_bound() stays false until the next set_binding, also when the broker   *)
(* delivers back a state message the agent published earlier; and once the   *)
(* concurrent mutators have all returned, the last retained snapshot         *)
(* published equals the in-memory state.                                     *)
C32_BindingFollowsMutators == C32_ClearedStaysUnbound /\ C32_RetainedIsMemory


(* C33: the first valid response decides the outcome of a request: once the *)
(* waiter of request R is completed, a duplicate or second response for R   *)
(* changes neither the ok flag nor the result nor the error that the caller *)
(* of _request receives when it pops the waiter.                            *)
C33_FirstResponseDecides ==
    [][\A r \in RequestIds :
          (pending[r] # None /\ pending[r][1].completed /\ pending'[r] # None)
              => RequestOutcome(pending'[r]) = RequestOutcome(pending[r])]_vars


C34_LargestSuffix ==
    LET suffixes == {i \in 1..MaxButtonRows : button_rows[AutoName(i)] # 0}
    IN IF suffixes = {} THEN 0 ELSE CHOOSE i \in suffixes : \A j \in suffixes : j <= i

(* The step in which a start() returns its status. *)
C34_StartSucceeds == start_pc = "install" /\ start_pc' = "idle" /\ start_result' = "ok"

(* A successful start leaves no buttons and index 1, or the buttons it found and the next free index. *)
C34_StartEffect ==
    C34_StartSucceeds =>
        /\ cur_session' # 0
        /\ IF start_extend
           THEN session_objects'[cur_session'].next_button_index = 1 + C34_LargestSuffix
           ELSE /\ \A n \in ButtonNames : button_rows'[n] = 0
                /\ session_objects'[cur_session'].next_button_index = 1

(* A start with extend changes no button in any of its steps. *)
C34_ExtendKeepsButtons ==
    (start_extend /\ start_pc # "idle" /\ start_pc' # start_pc)
        => UNCHANGED <<button_rows, button_count, signal_rows>>

(* A start that is refused changes neither the buttons nor the session. *)
C34_RefusedStartChangesNothing ==
    (start_result' \in {"Learning session is already running", "Unknown remote_id"}
     /\ start_result' # start_result)
        => UNCHANGED <<button_rows, button_count, signal_rows, cur_session, session_objects,
                       session_count>>

(* C34: start(remote_id, extend=false) that succeeds leaves the remote      *)
(* with no buttons and next_button_index 1; start with extend=true leaves   *)
(* the buttons unchanged and sets next_button_index to 1 + the largest      *)
(* suffix among the names BTN_dddd (1 when there is none); a start that     *)
(* fails because a session is running or the remote is unknown clears no    *)
(* buttons and creates no session.                                          *)
C34_StartFrame ==
    [][C34_StartEffect /\ C34_ExtendKeepsButtons /\ C34_RefusedStartChangesNothing]_vars

(* A start with extend has returned over a remote that holds BTN_0001 and power. *)
C34_Witness ==
    /\ start_result = "ok" /\ start_extend /\ cur_session # 0
    /\ button_rows[AutoName(1)] # 0 /\ button_rows["power"] # 0
    /\ session_objects[cur_session].next_button_index = 2


(* The step in which a press capture without button_name and with overwrite=false ends. *)
C37_AutoNamedCaptureEnds ==
    /\ capPc["c1"] # "idle" /\ capPc'["c1"] = "idle"
    /\ capLocal["c1"].button_name = "" /\ ~capLocal["c1"].overwrite

(* C37: within a session a press capture with no button_name targets a      *)
(* fresh button: the name BTN_%04d built from next_button_index never names *)
(* a button that has signals, so an auto-named capture with overwrite=false *)
(* never fails with 'Press signal already exists', whatever explicit names  *)
(* were captured earlier in the session.                                    *)
C37_AutoNameIsFresh ==
    [][C37_AutoNamedCaptureEnds =>
          capResult'["c1"].error # "Press signal already exists (set overwrite=true to replace)"]_vars


(* C35: apply_learning_settings updates aggregate_round_to_us,              *)
(* aggregate_min_match_ratio and hold_idle_timeout_ms atomically: a capture *)
(* that runs at the same time never calls the aggregator with a round_to_us *)
(* of one settings update and a min_match_ratio of another.                 *)
C35_AggregateArgsFromOneUpdate ==
    \A t \in CaptureThreads :
        tuningPc[t] = "aggregate"
            => <<aggregate_args[t].round_to_us_arg, aggregate_args[t].min_match_ratio_arg>>
                    \in applied_pairs


(* C36: after any interleaving of register_agent(a) and unregister_agent(a) *)
(* calls has completed, the persisted record and the live map agree: the    *)
(* record of a has status 'online' if and only if a is in the live map.     *)
C36_RecordAgreesWithLiveMap ==
    (\A t \in RegistryThreads : regPc[t] = "idle")
        => \A a \in AgentIds :
               (agents[a] # None /\ agents[a][1].status = "online") <=> a \in live_agents


(* The absolute durations at position i of the frames of the dominant cluster, in list order. *)
C38_Values(i) ==
    LET best == aggregate_result[1].best_indices
    IN [n \in 1..Len(best) |-> Abs(frames[best[n] + 1][i])]

C38_AtMost(values, v) == Cardinality({k \in 1..Len(values) : values[k] <= v})
C38_AtLeast(values, v) == Cardinality({k \in 1..Len(values) : values[k] >= v})

(* The lower and the upper of the two middle values; both are the middle value of an odd count. *)
C38_LowerMiddle(values) ==
    CHOOSE v \in {values[k] : k \in 1..Len(values)} :
        /\ 2 * C38_AtMost(values, v) >= Len(values)
        /\ 2 * C38_AtLeast(values, v) >= Len(values) + 1
C38_UpperMiddle(values) ==
    CHOOSE v \in {values[k] : k \in 1..Len(values)} :
        /\ 2 * C38_AtMost(values, v) >= Len(values) + 1
        /\ 2 * C38_AtLeast(values, v) >= Len(values)

C38_Aggregated ==
    /\ aggregate_result # None
    /\ aggregate_result[1].error = ""

(* C38: the aggregated duration at each position is the median of the       *)
(* absolute durations of the dominant-cluster frames at that position, the  *)
(* lower of the two middle values for an even number of frames, before      *)
(* rounding to the nearest multiple of round_to_us.                         *)
C38_LowerMedian ==
    C38_Aggregated =>
        \A i \in 1..Len(aggregate_result[1].aggregated) :
            Abs(aggregate_result[1].aggregated[i])
                = Rounded(C38_LowerMiddle(C38_Values(i)), round_to_us)

(* C38 as the code has it: for an even number of frames the value that is   *)
(* rounded is the mean of the two middle values, cut to an integer.         *)
C38_MeanOfMiddle ==
    C38_Aggregated =>
        \A i \in 1..Len(aggregate_result[1].aggregated) :
            Abs(aggregate_result[1].aggregated[i])
                = Rounded((C38_LowerMiddle(C38_Values(i)) + C38_UpperMiddle(C38_Values(i))) \div 2,
                          round_to_us)

(* Two frames of one cluster with different durations were aggregated. *)
C38_Witness ==
    /\ C38_Aggregated
    /\ Len(aggregate_result[1].best_indices) = 2
    /\ C38_LowerMiddle(C38_Values(1)) # C38_UpperMiddle(C38_Values(1))
    /\ round_to_us = 1



(* C39: receive_one_message deletes the scratch file it created on every exit *)
(* path: when no call is in progress, whether the last one returned or        *)
(* raised, no scratch file exists.                                            *)
C39_ScratchFileDeleted == rx_pc = "idle" => scratch_files = {}

====
